---- MODULE Spec2Model ----
(***************************************************************************)
(* Web-search aggregation layer of servers/web-search/web.py: the sliding  *)
(* rate window (check_rate_limit), the per-engine failure map              *)
(* (is_engine_failing, mark_engine_failed), the six scraped adapters and   *)
(* the fallback chain search_with_fallbacks, search_youtube_videos with    *)
(* extract_youtube_id, the URL classifiers, the tool handlers behind       *)
(* call_tool and the functions for direct import (search, search_videos,   *)
(* search_images).                                                         *)
(*                                                                         *)
(* time.time() is the variable now.  A call of a module function is one    *)
(* action; every clock reading made inside one call returns the same now,  *)
(* and the clock advances between calls (Tick).                            *)
(***************************************************************************)
EXTENDS Integers, Sequences, FiniteSets, TLC

VARIABLES
    now,                \* the clock read by time.time()
    ticks,              \* number of clock advances so far (bounded)
    faults,             \* number of provider errors injected so far (bounded)
    ddgs_available,     \* web.py:54/57, whether duckduckgo_search imported
    rate_limit,         \* web.py:62, the limiter configuration
    search_timestamps,  \* web.py:61, the rate window
    failed_engines,     \* web.py:63, engine name -> time of last failure
    call,               \* the last operation that ran and its arguments
    ret,                \* what that operation returned
    trace,              \* engine attempts of that operation, in order
    log,                \* history of direct check_rate_limit calls
    marked,             \* engine name -> time of its last mark, if any
    providers,          \* what the remote providers can answer in this run
    api_calls,          \* times of the API requests of the trailing window
    MCP_AVAILABLE,      \* web.py:26/29, whether the mcp package imported
    threads,            \* callers inside check_rate_limit, one per thread
    CONFIG,             \* terminal.py:45, the loaded terminal configuration
    processes           \* subprocesses created by run_command, with their events

vars == <<now, ticks, faults, ddgs_available, rate_limit, search_timestamps,
          failed_engines, call, ret, trace, log, marked, providers, api_calls,
          MCP_AVAILABLE, threads, CONFIG, processes>>

----------------------------------------------------------------------------
(* Bounds of the exploration *)

MaxTicks == 1
MaxFaults == 1
MaxRequests == 1
MaxLimit == 2
MaxMarks == 2
MaxChecks == 4
MaxResults == 1
MaxPage == 2
MaxChainFaults == 6
MaxThreads == 2
MaxSleeps == 1

(* Program constants *)

Cooldown == 300
DefaultMaxRequests == 15
DefaultWindowSeconds == 60
RetryCooldown == 30

(* The fixed chain of search_with_fallbacks, web.py:483-543 *)
Chain ==
    << "duckduckgo_api", "duckduckgo_html", "google", "bing",
       "yandex", "startpage", "ecosia" >>

Engines == { Chain[i] : i \in 1..Len(Chain) }

ApiEngine == "duckduckgo_api"

Scraped == Engines \ {ApiEngine}

----------------------------------------------------------------------------
(* check_rate_limit, web.py:66-82 *)

InWindow_inclusive(ts, t, rl) ==
    SelectSeq(ts, LAMBDA x : t - x <= rl.window_seconds)

InWindow(ts, t, rl) ==
    SelectSeq(ts, LAMBDA x : t - x < rl.window_seconds)

check_rate_limit_noreject(ts, t, rl) ==
    LET kept == InWindow(ts, t, rl)
    IN  IF Len(kept) >= rl.max_requests
        THEN [ok |-> FALSE, ts |-> Append(kept, t)]
        ELSE [ok |-> TRUE, ts |-> Append(kept, t)]

check_rate_limit_offbyone(ts, t, rl) ==
    LET kept == InWindow(ts, t, rl)
    IN  IF Len(kept) > rl.max_requests
        THEN [ok |-> FALSE, ts |-> kept]
        ELSE [ok |-> TRUE, ts |-> Append(kept, t)]

check_rate_limit_always(ts, t, rl) ==
    [ok |-> TRUE, ts |-> Append(InWindow(ts, t, rl), t)]

check_rate_limit_double(ts, t, rl) ==
    LET kept == InWindow(ts, t, rl)
    IN  IF Len(kept) >= rl.max_requests
        THEN [ok |-> FALSE, ts |-> kept]
        ELSE [ok |-> TRUE, ts |-> Append(Append(kept, t), t)]

check_rate_limit(ts, t, rl) ==
    LET kept == InWindow(ts, t, rl)
    IN  IF Len(kept) >= rl.max_requests
        THEN [ok |-> FALSE, ts |-> kept]
        ELSE [ok |-> TRUE, ts |-> Append(kept, t)]

(* `ddgs_available and check_rate_limit()`, web.py:379, 484, 815: the      *)
(* limiter is consulted only when the API library was imported; checks is  *)
(* the number of times it was consulted.                                   *)
Gate(ts, t) ==
    IF ddgs_available
    THEN [ok |-> check_rate_limit(ts, t, rate_limit).ok,
          ts |-> check_rate_limit(ts, t, rate_limit).ts, checks |-> 1]
    ELSE [ok |-> FALSE, ts |-> ts, checks |-> 0]

(* The outcomes S of a call that consulted the limiter c times itself *)
Checked(c, S) == { o @@ [checks |-> c] : o \in S }

Rechecked(c, S) == { [o EXCEPT !.checks = @ + c] : o \in S }

----------------------------------------------------------------------------
(* The failure map, web.py:85-103 *)

Forget(fe, e) == [x \in (DOMAIN fe) \ {e} |-> fe[x]]

is_engine_failing_strict(fe, e, t) ==
    IF e \in DOMAIN fe
    THEN IF t - fe[e] >= Cooldown
         THEN [failing |-> FALSE, fe |-> Forget(fe, e)]
         ELSE [failing |-> TRUE, fe |-> fe]
    ELSE [failing |-> FALSE, fe |-> fe]

is_engine_failing(fe, e, t) ==
    IF e \in DOMAIN fe
    THEN IF t - fe[e] > Cooldown
         THEN [failing |-> FALSE, fe |-> Forget(fe, e)]
         ELSE [failing |-> TRUE, fe |-> fe]
    ELSE [failing |-> FALSE, fe |-> fe]

mark_engine_failed_keepfirst(fe, e, t) ==
    IF e \in DOMAIN fe THEN fe
    ELSE [x \in (DOMAIN fe) \cup {e} |-> IF x = e THEN t ELSE fe[x]]

mark_engine_failed(fe, e, t) ==
    [x \in (DOMAIN fe) \cup {e} |-> IF x = e THEN t ELSE fe[x]]

(* retry_with_delay, web.py:106-124.  delay is what random.uniform(1, 3)   *)
(* drew, in whole seconds; the clock is read again after the sleep.        *)
Delays == {1, 2, 3}

retry_with_delay_inclusive(fe, e, t, delay) ==
    IF e \notin DOMAIN fe THEN [ok |-> TRUE, fe |-> fe, now |-> t]
    ELSE IF (t + delay) - fe[e] >= RetryCooldown
    THEN [ok |-> TRUE, fe |-> Forget(fe, e), now |-> t + delay]
    ELSE [ok |-> FALSE, fe |-> fe, now |-> t + delay]

retry_with_delay(fe, e, t, delay) ==
    IF e \notin DOMAIN fe THEN [ok |-> TRUE, fe |-> fe, now |-> t]
    ELSE IF (t + delay) - fe[e] > RetryCooldown
    THEN [ok |-> TRUE, fe |-> Forget(fe, e), now |-> t + delay]
    ELSE [ok |-> FALSE, fe |-> fe, now |-> t + delay]

(* marked follows the failure map: an entry that appears or changes in a   *)
(* step was written by mark_engine_failed at the time it holds.            *)
Marks(old, new, m) ==
    LET written == { e \in DOMAIN new : e \notin DOMAIN old \/ new[e] # old[e] }
    IN  [e \in (DOMAIN m) \cup written |->
            IF e \in written THEN new[e] ELSE m[e]]

----------------------------------------------------------------------------
(* Python string and dictionary operations the code relies on *)

(* dict.get(k, d) *)
Get(r, k, d) == IF k \in DOMAIN r THEN r[k] ELSE d

(* s[i:] with i counted from 1 *)
After(s, i) == SubSeq(s, i, Len(s))

(* Position of the first occurrence of sub in s at or after i, 0 if none *)
Find(s, sub, i) ==
    LET at == { j \in i..(Len(s) - Len(sub) + 1) :
                  SubSeq(s, j, j + Len(sub) - 1) = sub }
    IN  IF at = {} THEN 0 ELSE CHOOSE j \in at : \A k \in at : j <= k

(* sub in s *)
Contains(s, sub) == Find(s, sub, 1) # 0

(* s.startswith(p) *)
StartsWith(s, p) == Len(s) >= Len(p) /\ SubSeq(s, 1, Len(p)) = p

(* s.split(sep)[0] *)
Before(s, sep) ==
    LET j == Find(s, sep, 1)
    IN  IF j = 0 THEN s ELSE SubSeq(s, 1, j - 1)

----------------------------------------------------------------------------
(* What a provider answers to one request: an error (network error,       *)
(* non-2xx status, unparsable body) or a page of raw items.                *)

Queries == {"", "rust"}

(* A result element of a scraped page as the selectors see it: the text of *)
(* its title element (title), the presence of a link element (link), the   *)
(* href attribute of the link (href), the text of the snippet element      *)
(* (snippet).  A field that is absent is an element or attribute the page  *)
(* does not have.                                                          *)
RawItems ==
    { [title |-> "T", link |-> TRUE, href |-> "http://a", snippet |-> "S"] }

(* A result of ddgs.text: title, href, body *)
ApiItems == { [title |-> "T", href |-> "http://a", body |-> "S"] }

(* A result of ddgs.images: title, image *)
ImageItems == { [title |-> "T", image |-> "http://a/i.png"] }

(* The pages of at most n items *)
RECURSIVE Pages(_, _)
Pages(items, n) ==
    IF n = 0 THEN { << >> }
    ELSE Pages(items, n - 1) \cup
         { Append(p, i) : p \in { x \in Pages(items, n - 1) : Len(x) = n - 1 },
                          i \in items }

Answers(pages) ==
    {[status |-> "error", items |-> << >>]} \cup
    { [status |-> "ok", items |-> p] : p \in pages }

(* Answers of a scraped page request, of ddgs.text and of ddgs.images *)
Responses == Answers(providers.html)

ApiResponses == Answers(providers.text)

ImageResponses == Answers(providers.images)

(* The answers the exploration may still inject once f errors were used *)
Allowed(R, f) ==
    IF f < providers.errors THEN R
    ELSE { r \in R : r.status = "ok" }

Take_all(s, n) == s

Take(s, n) == IF Len(s) <= n THEN s ELSE SubSeq(s, 1, n)

----------------------------------------------------------------------------
(* The scraped adapters, web.py:127-176 (google), 179-224 (bing),          *)
(* 227-272 (yandex), 275-319 (duckduckgo_html), 322-367 (startpage),       *)
(* 432-477 (ecosia).  The six functions differ in the engine name, the URL *)
(* requested, the selectors, the test that keeps an element and, for       *)
(* google, the clean-up of the link.                                       *)

(* `if title_elem:` (web.py:301, where the title element is the link) and  *)
(* `if title_elem and link_elem:` (web.py:154, 206, 254, 349, 459)         *)
(* A result element whose parsing raises inside the loop; the loop's own   *)
(* except clause moves on to the next element (web.py:168-169, 311-312)    *)
Raises(x) == "broken" \in DOMAIN x

Kept(e, x) ==
    /\ ~ Raises(x)
    /\ IF e = "duckduckgo_html" THEN "title" \in DOMAIN x
       ELSE "title" \in DOMAIN x /\ "link" \in DOMAIN x

(* web.py:159-161 *)
CleanGoogleUrl(url) ==
    IF StartsWith(url, "/url?q=")
    THEN Before(Before(After(url, Len("/url?q=") + 1), "/url?q="), "&")
    ELSE url

(* url = link_elem.get('href', '') *)
UrlOf(e, x) ==
    IF e = "google" THEN CleanGoogleUrl(Get(x, "href", ""))
    ELSE Get(x, "href", "")

ParseItems_reversed(e, items, n) ==
    LET page == SelectSeq(Take(items, n), LAMBDA x : Kept(e, x))
    IN  [i \in 1..Len(page) |->
            [title |-> page[Len(page) + 1 - i].title,
             url |-> UrlOf(e, page[Len(page) + 1 - i]),
             snippet |-> Get(page[Len(page) + 1 - i], "snippet", "")]]

(* The loop over the first num_results result elements *)
ParseItems(e, items, n) ==
    LET page == SelectSeq(Take(items, n), LAMBDA x : Kept(e, x))
    IN  [i \in 1..Len(page) |->
            [title |-> page[i].title, url |-> UrlOf(e, page[i]),
             snippet |-> Get(page[i], "snippet", "")]]

scraped_fallback_nogate(e, fe, t, n, resp) ==
    IF resp.status = "error"
    THEN [results |-> << >>, fe |-> mark_engine_failed(fe, e, t),
          request |-> TRUE, raised |-> FALSE]
    ELSE [results |-> ParseItems(e, resp.items, n), fe |-> fe,
          request |-> TRUE, raised |-> FALSE]

scraped_fallback_uncaught(e, fe, t, n, resp) ==
    LET h == is_engine_failing(fe, e, t)
    IN  IF h.failing
        THEN [results |-> << >>, fe |-> h.fe, request |-> FALSE, raised |-> FALSE]
        ELSE IF resp.status = "error"
        THEN [results |-> << >>, fe |-> h.fe, request |-> TRUE, raised |-> TRUE]
        ELSE [results |-> ParseItems(e, resp.items, n), fe |-> h.fe,
              request |-> TRUE, raised |-> FALSE]

scraped_fallback_nomark(e, fe, t, n, resp) ==
    LET h == is_engine_failing(fe, e, t)
    IN  IF h.failing
        THEN [results |-> << >>, fe |-> h.fe, request |-> FALSE, raised |-> FALSE]
        ELSE IF resp.status = "error"
        THEN [results |-> << >>, fe |-> h.fe, request |-> TRUE, raised |-> FALSE]
        ELSE [results |-> ParseItems(e, resp.items, n), fe |-> h.fe,
              request |-> TRUE, raised |-> FALSE]

scraped_fallback_fatal(e, fe, t, n, resp) ==
    LET h == is_engine_failing(fe, e, t)
    IN  IF h.failing
        THEN [results |-> << >>, fe |-> h.fe, request |-> FALSE, raised |-> FALSE]
        ELSE IF \/ resp.status = "error"
                \/ \E i \in 1..Len(Take(resp.items, n)) : Raises(resp.items[i])
        THEN [results |-> << >>, fe |-> mark_engine_failed(h.fe, e, t),
              request |-> TRUE, raised |-> FALSE]
        ELSE [results |-> ParseItems(e, resp.items, n), fe |-> h.fe,
              request |-> TRUE, raised |-> FALSE]

scraped_fallback_markempty(e, fe, t, n, resp) ==
    LET h == is_engine_failing(fe, e, t)
    IN  IF h.failing
        THEN [results |-> << >>, fe |-> h.fe, request |-> FALSE, raised |-> FALSE]
        ELSE IF resp.status = "error" \/ ParseItems(e, resp.items, n) = << >>
        THEN [results |-> << >>, fe |-> mark_engine_failed(h.fe, e, t),
              request |-> TRUE, raised |-> FALSE]
        ELSE [results |-> ParseItems(e, resp.items, n), fe |-> h.fe,
              request |-> TRUE, raised |-> FALSE]

scraped_fallback(e, fe, t, n, resp) ==
    LET h == is_engine_failing(fe, e, t)
    IN  IF h.failing
        THEN [results |-> << >>, fe |-> h.fe, request |-> FALSE, raised |-> FALSE]
        ELSE IF resp.status = "error"
        THEN [results |-> << >>, fe |-> mark_engine_failed(h.fe, e, t),
              request |-> TRUE, raised |-> FALSE]
        ELSE [results |-> ParseItems(e, resp.items, n), fe |-> h.fe,
              request |-> TRUE, raised |-> FALSE]

search_duckduckgo_html_fallback(fe, t, n, resp) ==
    scraped_fallback("duckduckgo_html", fe, t, n, resp)

search_google_fallback(fe, t, n, resp) ==
    scraped_fallback("google", fe, t, n, resp)

search_bing_fallback(fe, t, n, resp) ==
    scraped_fallback("bing", fe, t, n, resp)

search_yandex_fallback(fe, t, n, resp) ==
    scraped_fallback("yandex", fe, t, n, resp)

search_startpage_fallback(fe, t, n, resp) ==
    scraped_fallback("startpage", fe, t, n, resp)

search_ecosia_fallback(fe, t, n, resp) ==
    scraped_fallback("ecosia", fe, t, n, resp)

AdapterOf(e, fe, t, n, resp) ==
    CASE e = "duckduckgo_html" -> search_duckduckgo_html_fallback(fe, t, n, resp)
      [] e = "google" -> search_google_fallback(fe, t, n, resp)
      [] e = "bing" -> search_bing_fallback(fe, t, n, resp)
      [] e = "yandex" -> search_yandex_fallback(fe, t, n, resp)
      [] e = "startpage" -> search_startpage_fallback(fe, t, n, resp)
      [] e = "ecosia" -> search_ecosia_fallback(fe, t, n, resp)

(* One engine attempt as the trace records it: whether a request went     *)
(* out, how it ended, the result set the method made of the answer and,    *)
(* when that set is not empty, the raw page it was made of.                *)
Attempt(e, request, page, results, status) ==
    [engine |-> e, request |-> request, page |-> page, got |-> Len(results),
     results |-> results, status |-> status]

----------------------------------------------------------------------------
(* search_with_fallbacks, web.py:480-551 *)

UnavailableSnippet(q) ==
    "All search engines are currently unavailable for query: \"" \o q \o
    "\". This is very rare - please try again in a few minutes. We tried 7 " \o
    "different search methods including DuckDuckGo, Google, Bing, Yandex, " \o
    "Startpage, and Ecosia."

(* web.py:547-551 *)
Placeholder(q) ==
    [title |-> "Search Temporarily Unavailable", url |-> "",
     snippet |-> UnavailableSnippet(q)]

(* The return after method 7, web.py:545-551 *)
Exhausted_empty(q) == << >>

Exhausted(q) == << Placeholder(q) >>

(* web.py:490-498 *)
FormatApi(items) ==
    [i \in 1..Len(items) |->
        [title |-> Get(items[i], "title", "No title"),
         url |-> Get(items[i], "href", ""),
         snippet |-> Get(items[i], "body", "No description")]]

(* `if results:` after each method, web.py:488, 506, 513, 520, 527, 534, 541 *)
FirstSuccessNever(results) == FALSE

FirstSuccess(results) == results # << >>

(* Methods 2..7 and the final placeholder, web.py:503-551: from position k *)
(* of the chain, every way the rest of the call can go.                    *)
RECURSIVE ScrapedMethods(_, _, _, _, _, _, _, _)
ScrapedMethods(k, ts, fe, t, q, n, f, tr) ==
    IF k > Len(Chain)
    THEN {[value |-> Exhausted(q), raised |-> FALSE, ts |-> ts,
           fe |-> fe, faults |-> f, trace |-> tr]}
    ELSE UNION {
        LET f2 == IF o.status = "error" THEN f + 1 ELSE f
            tr2 == Append(tr, Attempt(Chain[k], o.a.request, o.page,
                                      o.a.results, o.status))
        IN  IF o.a.raised
            THEN {[value |-> << >>, raised |-> TRUE, ts |-> ts, fe |-> o.a.fe,
                   faults |-> f2, trace |-> tr2]}
            ELSE IF FirstSuccess(o.a.results)
            THEN {[value |-> o.a.results, raised |-> FALSE, ts |-> ts,
                   fe |-> o.a.fe, faults |-> f2, trace |-> tr2]}
            ELSE ScrapedMethods(k + 1, ts, o.a.fe, t, q, n, f2, tr2)
        : o \in { LET a == AdapterOf(Chain[k], fe, t, n, resp)
                  IN  [a |-> a,
                       page |-> IF a.results # << >> THEN resp.items
                                ELSE << >>,
                       status |-> IF a.request THEN resp.status ELSE "skipped"]
                  : resp \in Allowed(Responses, f) } }

search_with_fallbacks_markdenied(ts, fe, t, q, n, f) ==
    LET rl == Gate(ts, t)
    IN  Checked(rl.checks,
        IF ddgs_available /\ rl.ok
        THEN UNION {
            IF resp.status = "error"
            THEN ScrapedMethods(2, rl.ts, mark_engine_failed(fe, ApiEngine, t), t,
                                q, n, f + 1,
                                << Attempt(ApiEngine, TRUE, << >>, << >>, "error") >>)
            ELSE IF FirstSuccess(resp.items)
            THEN {[value |-> FormatApi(resp.items), raised |-> FALSE,
                   ts |-> rl.ts, fe |-> fe, faults |-> f,
                   trace |-> << Attempt(ApiEngine, TRUE, resp.items,
                                        FormatApi(resp.items), "ok") >>]}
            ELSE ScrapedMethods(2, rl.ts, fe, t, q, n, f,
                                << Attempt(ApiEngine, TRUE, << >>, << >>, "ok") >>)
            : resp \in Allowed(ApiResponses, f) }
        ELSE ScrapedMethods(2, rl.ts,
                            IF ddgs_available
                            THEN mark_engine_failed(fe, ApiEngine, t) ELSE fe,
                            t, q, n, f, << >>))

search_with_fallbacks_gateall(ts, fe, t, q, n, f) ==
    LET rl == Gate(ts, t)
    IN  Checked(rl.checks,
        IF ddgs_available /\ rl.ok
        THEN UNION {
            IF resp.status = "error"
            THEN ScrapedMethods(2, rl.ts, mark_engine_failed(fe, ApiEngine, t), t,
                                q, n, f + 1,
                                << Attempt(ApiEngine, TRUE, << >>, << >>, "error") >>)
            ELSE IF FirstSuccess(resp.items)
            THEN {[value |-> FormatApi(resp.items), raised |-> FALSE,
                   ts |-> rl.ts, fe |-> fe, faults |-> f,
                   trace |-> << Attempt(ApiEngine, TRUE, resp.items,
                                        FormatApi(resp.items), "ok") >>]}
            ELSE ScrapedMethods(2, rl.ts, fe, t, q, n, f,
                                << Attempt(ApiEngine, TRUE, << >>, << >>, "ok") >>)
            : resp \in Allowed(ApiResponses, f) }
        ELSE IF ddgs_available
        THEN {[value |-> Exhausted(q), raised |-> FALSE, ts |-> rl.ts,
               fe |-> fe, faults |-> f, trace |-> << >>]}
        ELSE ScrapedMethods(2, rl.ts, fe, t, q, n, f, << >>))

search_with_fallbacks(ts, fe, t, q, n, f) ==
    LET rl == Gate(ts, t)
    IN  Checked(rl.checks,
        IF ddgs_available /\ rl.ok
        THEN UNION {
            IF resp.status = "error"
            THEN ScrapedMethods(2, rl.ts, mark_engine_failed(fe, ApiEngine, t), t,
                                q, n, f + 1,
                                << Attempt(ApiEngine, TRUE, << >>, << >>, "error") >>)
            ELSE IF FirstSuccess(resp.items)
            THEN {[value |-> FormatApi(resp.items), raised |-> FALSE,
                   ts |-> rl.ts, fe |-> fe, faults |-> f,
                   trace |-> << Attempt(ApiEngine, TRUE, resp.items,
                                        FormatApi(resp.items), "ok") >>]}
            ELSE ScrapedMethods(2, rl.ts, fe, t, q, n, f,
                                << Attempt(ApiEngine, TRUE, << >>, << >>, "ok") >>)
            : resp \in Allowed(ApiResponses, f) }
        ELSE ScrapedMethods(2, rl.ts, fe, t, q, n, f, << >>))

----------------------------------------------------------------------------
(* extract_youtube_id, web.py:554-564 *)

(* The characters the capture group [^&\n?#]+ stops at *)
IdStops == {"&", "\n", "?", "#"}

IdAt_whole(url, i) == After(url, i)

(* The longest run of characters other than IdStops that starts at i *)
IdAt(url, i) ==
    LET stops == { j \in i..Len(url) : SubSeq(url, j, j) \in IdStops }
        last == IF stops = {} THEN Len(url)
                ELSE (CHOOSE j \in stops : \A k \in stops : j <= k) - 1
    IN  SubSeq(url, i, last)

(* The two patterns: the alternatives that must precede the group *)
patterns ==
    << << "youtube.com/watch?v=", "youtu.be/", "youtube.com/embed/" >>,
       << "youtube.com/shorts/" >> >>

(* re.search(pattern, url): the group of the leftmost match, as a sequence  *)
(* of one string, or the empty sequence when nothing matches                *)
re_search(alts, url) ==
    LET hits == { m \in (1..Len(url)) \X (1..Len(alts)) :
                    /\ m[1] + Len(alts[m[2]]) - 1 <= Len(url)
                    /\ SubSeq(url, m[1], m[1] + Len(alts[m[2]]) - 1) = alts[m[2]]
                    /\ IdAt(url, m[1] + Len(alts[m[2]])) # "" }
    IN  IF hits = {} THEN << >>
        ELSE LET m == CHOOSE x \in hits :
                        \A y \in hits :
                            x[1] < y[1] \/ (x[1] = y[1] /\ x[2] <= y[2])
             IN  << IdAt(url, m[1] + Len(alts[m[2]])) >>

(* The first pattern that matches decides; None is the empty sequence *)
extract_youtube_id(url) ==
    IF re_search(patterns[1], url) # << >> THEN re_search(patterns[1], url)
    ELSE re_search(patterns[2], url)

----------------------------------------------------------------------------
(* search_youtube_videos, web.py:370-429 *)

(* The filter loops of web.py:387-398 and 410-422 over records whose URL    *)
(* is under urlkey and whose description is under textkey                   *)
YoutubeVideo(r, urlkey, textkey) ==
    LET url == Get(r, urlkey, "")
    IN  /\ (Contains(url, "youtube.com") \/ Contains(url, "youtu.be"))
        /\ extract_youtube_id(url) # << >>

youtube_results(items, urlkey, textkey) ==
    LET hits == SelectSeq(items, LAMBDA r : YoutubeVideo(r, urlkey, textkey))
    IN  [i \in 1..Len(hits) |->
            LET url == Get(hits[i], urlkey, "")
                youtube_id == extract_youtube_id(url)[1]
            IN  [title |-> Get(hits[i], "title", "No title"),
                 url |-> url,
                 snippet |-> Get(hits[i], textkey, "No description"),
                 youtube_id |-> youtube_id,
                 embed_url |-> "https://www.youtube.com/embed/" \o youtube_id]]

(* One call of search_with_fallbacks made inside another entry point: the  *)
(* query and limit it was given and what it returned                       *)
General(query, n, value) ==
    [query |-> query, num_results |-> n, value |-> value]

(* Method 2, web.py:406-429 *)
YoutubeFallback_unfiltered(ts, fe, t, youtube_query, n, f, tr) ==
    { [value |-> Take(o.value, n),
       raised |-> o.raised, ts |-> o.ts, fe |-> o.fe, faults |-> o.faults,
       trace |-> tr \o o.trace, checks |-> o.checks,
       general |-> << General(youtube_query, n * 2, o.value) >>]
      : o \in search_with_fallbacks(ts, fe, t, youtube_query, n * 2, f) }

YoutubeFallback(ts, fe, t, youtube_query, n, f, tr) ==
    { [value |-> Take(youtube_results(o.value, "url", "snippet"), n),
       raised |-> o.raised, ts |-> o.ts, fe |-> o.fe, faults |-> o.faults,
       trace |-> tr \o o.trace, checks |-> o.checks,
       general |-> << General(youtube_query, n * 2, o.value) >>]
      : o \in search_with_fallbacks(ts, fe, t, youtube_query, n * 2, f) }

search_youtube_videos(ts, fe, t, q, n, f) ==
    LET youtube_query == q \o " site:youtube.com OR site:youtu.be"
        rl == Gate(ts, t)
    IN  Rechecked(rl.checks,
        IF ddgs_available /\ rl.ok
        THEN UNION {
            IF o.status = "error"
            THEN YoutubeFallback(rl.ts, fe, t, youtube_query, n, f + 1,
                                 << Attempt(ApiEngine, TRUE, << >>, << >>, "error") >>)
            ELSE IF o.videos # << >>
            THEN {[value |-> o.videos, raised |-> FALSE, ts |-> rl.ts,
                   fe |-> fe, faults |-> f,
                   trace |-> << Attempt(ApiEngine, TRUE, o.page, o.videos,
                                        "ok") >>,
                   general |-> << >>, checks |-> 0]}
            ELSE YoutubeFallback(rl.ts, fe, t, youtube_query, n, f,
                                 << Attempt(ApiEngine, TRUE, << >>, << >>, "ok") >>)
            : o \in { LET videos == youtube_results(resp.items, "href", "body")
                      IN  [status |-> resp.status, videos |-> videos,
                           page |-> IF videos # << >> THEN resp.items
                                    ELSE << >>]
                      : resp \in Allowed(ApiResponses, f) } }
        ELSE YoutubeFallback(rl.ts, fe, t, youtube_query, n, f, << >>))

----------------------------------------------------------------------------
(* handle_image_search, web.py:800-863 *)

(* web.py:832-841 *)
images_found(results) ==
    LET hits == SelectSeq(results, LAMBDA r : Get(r, "image", "") # "")
    IN  [i \in 1..Len(hits) |->
            [url |-> hits[i].image, title |-> Get(hits[i], "title", "No title")]]

(* web.py:843-851, the text of the single content item (without the        *)
(* pictograph that opens the heading)                                       *)
RECURSIVE ImageLines(_, _)
ImageLines(images, i) ==
    IF i > Len(images) THEN ""
    ELSE ToString(i) \o ". " \o images[i].title \o "\n" \o
         "   URL: " \o images[i].url \o "\n\n" \o ImageLines(images, i + 1)

ImageText(images) ==
    IF images # << >> THEN " IMAGES FOUND:\n\n" \o ImageLines(images, 1)
    ELSE "No images found."

CallToolResult(images) ==
    [isError |-> FALSE, images |-> images, content |-> << ImageText(images) >>]

(* web.py:824-827 *)
ImageFallback(ts, fe, t, image_query, n, f, tr) ==
    { [value |-> CallToolResult(images_found(o.value)),
       raised |-> o.raised, ts |-> o.ts, fe |-> o.fe, faults |-> o.faults,
       trace |-> tr \o o.trace, checks |-> o.checks,
       general |-> << General(image_query, n, o.value) >>]
      : o \in search_with_fallbacks(ts, fe, t, image_query, n, f) }

handle_image_search(ts, fe, t, q, n, f) ==
    LET image_query == q \o " filetype:jpg OR filetype:png OR filetype:gif"
        rl == Gate(ts, t)
    IN  Rechecked(rl.checks,
        IF ddgs_available /\ rl.ok
        THEN UNION {
            IF resp.status = "error"
            THEN ImageFallback(rl.ts, fe, t, image_query, n, f + 1,
                               << Attempt(ApiEngine, TRUE, << >>, << >>, "error") >>)
            ELSE IF resp.items # << >>
            THEN {[value |-> CallToolResult(images_found(resp.items)),
                   raised |-> FALSE, ts |-> rl.ts, fe |-> fe, faults |-> f,
                   trace |-> << Attempt(ApiEngine, TRUE, resp.items,
                                        resp.items, "ok") >>,
                   general |-> << >>, checks |-> 0]}
            ELSE ImageFallback(rl.ts, fe, t, image_query, n, f,
                               << Attempt(ApiEngine, TRUE, << >>, << >>, "ok") >>)
            : resp \in Allowed(ImageResponses, f) }
        ELSE ImageFallback(rl.ts, fe, t, image_query, n, f, << >>))

----------------------------------------------------------------------------
(* is_image_url and is_video_url, web.py:567-576 *)

UpperCase == "ABCDEFGHIJKLMNOPQRSTUVWXYZ"

LowerCase == "abcdefghijklmnopqrstuvwxyz"

(* str.lower() on the letters of the ASCII alphabet *)
RECURSIVE Lower(_)
Lower(s) ==
    IF s = "" THEN ""
    ELSE LET c == SubSeq(s, 1, 1)
             i == Find(UpperCase, c, 1)
         IN  (IF i = 0 THEN c ELSE SubSeq(LowerCase, i, i)) \o Lower(After(s, 2))

(* str.endswith *)
EndsWith(s, suffix) ==
    /\ Len(suffix) <= Len(s)
    /\ After(s, Len(s) - Len(suffix) + 1) = suffix

image_extensions == {".jpg", ".jpeg", ".png", ".gif", ".webp", ".bmp", ".svg"}

video_extensions == {".mp4", ".webm", ".ogg", ".mov", ".avi"}

is_image_url_exact(url) ==
    \E ext \in image_extensions : EndsWith(url, ext)

is_image_url(url) ==
    \E ext \in image_extensions : EndsWith(Lower(url), ext)

is_video_url(url) ==
    \E ext \in video_extensions : EndsWith(Lower(url), ext)

----------------------------------------------------------------------------
(* handle_search, web.py:693-764 *)

(* web.py:717-741, the entry appended to multimedia_found for one result,  *)
(* if any                                                                  *)
Multimedia(url, title) ==
    LET youtube_id == extract_youtube_id(url)
    IN  IF youtube_id # << >>
        THEN << [type |-> "youtube", id |-> youtube_id[1], title |-> title,
                 url |-> url] >>
        ELSE IF is_image_url(url)
        THEN << [type |-> "image", url |-> url, title |-> title] >>
        ELSE IF is_video_url(url)
        THEN << [type |-> "video", url |-> url, title |-> title] >>
        ELSE << >>

(* web.py:713-715, what the loop reads from one result *)
Shown(result) ==
    [url |-> Get(result, "href", ""), title |-> Get(result, "title", "No title"),
     snippet |-> Get(result, "body", "No description")]

RECURSIVE multimedia_found(_)
multimedia_found(results) ==
    IF results = << >> THEN << >>
    ELSE Multimedia(Shown(Head(results)).url, Shown(Head(results)).title)
         \o multimedia_found(Tail(results))

(* web.py:744-749 *)
content_items_classified(results) ==
    LET plain == SelectSeq(results,
                     LAMBDA r : Multimedia(Get(r, "url", ""), "") = << >>)
    IN  [i \in 1..Len(plain) |->
            ToString(i) \o ". " \o Shown(plain[i]).title \o "\n" \o
            Shown(plain[i]).snippet \o "\n" \o Shown(plain[i]).url \o "\n"]

content_items(results) ==
    [i \in 1..Len(results) |->
        ToString(i) \o ". " \o Shown(results[i]).title \o "\n" \o
        Shown(results[i]).snippet \o "\n" \o Shown(results[i]).url \o "\n"]

(* web.py:753-760, without the pictographs that open the heading and the   *)
(* lines                                                                   *)
RECURSIVE MultimediaLines(_)
MultimediaLines(found) ==
    IF found = << >> THEN ""
    ELSE LET item == Head(found)
         IN  (IF item.type = "youtube"
              THEN " YouTube: " \o item.title \o "\n   ID: " \o item.id \o
                   "\n   URL: " \o item.url \o "\n"
              ELSE IF item.type = "image"
              THEN " Image: " \o item.title \o "\n   URL: " \o item.url \o "\n"
              ELSE " Video: " \o item.title \o "\n   URL: " \o item.url \o "\n")
             \o MultimediaLines(Tail(found))

multimedia_text(found) == "\n MULTIMEDIA CONTENT FOUND:\n" \o MultimediaLines(found)

(* CallToolResult(content=...), isError left at its default *)
TextResult(content) == [isError |-> FALSE, content |-> content]

handle_search(ts, fe, t, q, n, f) ==
    { [value |-> TextResult(
                    (IF multimedia_found(o.value) # << >>
                     THEN << multimedia_text(multimedia_found(o.value)) >>
                     ELSE << >>) \o content_items(o.value)),
       raised |-> o.raised, ts |-> o.ts, fe |-> o.fe, faults |-> o.faults,
       trace |-> o.trace, checks |-> o.checks,
       general |-> << General(q, n, o.value) >>]
      : o \in search_with_fallbacks(ts, fe, t, q, n, f) }

----------------------------------------------------------------------------
(* handle_video_search, web.py:767-797 *)

(* web.py:786-791, without the pictographs *)
RECURSIVE VideoLines(_, _)
VideoLines(videos, i) ==
    IF i > Len(videos) THEN ""
    ELSE ToString(i) \o ". **" \o videos[i].title \o "**\n" \o
         "    " \o videos[i].url \o "\n" \o
         "    " \o videos[i].snippet \o "\n" \o
         "    Video ID: " \o videos[i].youtube_id \o "\n\n" \o
         VideoLines(videos, i + 1)

VideoText(videos) ==
    IF videos # << >> THEN " YOUTUBE VIDEOS FOUND:\n\n" \o VideoLines(videos, 1)
    ELSE "No YouTube videos found."

handle_video_search(ts, fe, t, q, n, f) ==
    { [value |-> [isError |-> FALSE, videos |-> o.value,
                  content |-> << VideoText(o.value) >>],
       raised |-> o.raised, ts |-> o.ts, fe |-> o.fe, faults |-> o.faults,
       trace |-> o.trace, general |-> o.general, checks |-> o.checks]
      : o \in search_youtube_videos(ts, fe, t, q, n, f) }

----------------------------------------------------------------------------
(* call_tool, web.py:652-690, and the functions for direct import,         *)
(* web.py:867-900                                                          *)

(* web.py:681-690 *)
Guarded(o) ==
    IF o.raised
    THEN [o EXCEPT !.raised = FALSE,
                   !.value = [isError |-> TRUE, content |-> << "Error: " >>]]
    ELSE o

call_tool(name, ts, fe, t, q, n, f) ==
    IF name = "search"
    THEN { Guarded(o) : o \in handle_search(ts, fe, t, q, n, f) }
    ELSE IF name = "search_videos"
    THEN { Guarded(o) : o \in handle_video_search(ts, fe, t, q, n, f) }
    ELSE IF name = "search_images"
    THEN { Guarded(o) : o \in handle_image_search(ts, fe, t, q, n, f) }
    ELSE { [value |-> [isError |-> TRUE,
                       content |-> << "Unknown tool: " \o name >>],
            raised |-> FALSE, ts |-> ts, fe |-> fe, faults |-> f,
            trace |-> << >>, general |-> << >>, checks |-> 0] }

(* A direct call of search_with_fallbacks from an entry point *)
Direct(ts, fe, t, q, n, f) ==
    { [value |-> o.value, raised |-> o.raised, ts |-> o.ts, fe |-> o.fe,
       faults |-> o.faults, trace |-> o.trace, checks |-> o.checks,
       general |-> << General(q, n, o.value) >>]
      : o \in search_with_fallbacks(ts, fe, t, q, n, f) }

search(ts, fe, t, q, n, f) ==
    IF MCP_AVAILABLE THEN call_tool("search", ts, fe, t, q, n, f)
    ELSE Direct(ts, fe, t, q, n, f)

search_videos(ts, fe, t, q, n, f) ==
    IF MCP_AVAILABLE THEN call_tool("search_videos", ts, fe, t, q, n, f)
    ELSE search_youtube_videos(ts, fe, t, q, n, f)

search_images(ts, fe, t, q, n, f) ==
    IF MCP_AVAILABLE THEN call_tool("search_images", ts, fe, t, q, n, f)
    ELSE Direct(ts, fe, t, q, n, f)

----------------------------------------------------------------------------
(* The API requests of the trailing window after a call whose attempts are *)
(* tr: requests window_seconds old or older can no longer share a window   *)
(* with a request made now or later.                                       *)
ApiRequests(tr) ==
    SelectSeq(tr, LAMBDA x : x.engine = ApiEngine /\ x.request)

Called(calls, tr, t, rl) ==
    IF ApiRequests(tr) = << >> THEN calls
    ELSE InWindow(calls, t, rl) \o [i \in 1..Len(ApiRequests(tr)) |-> t]

----------------------------------------------------------------------------
(* The clock *)

(* Clock advances that land on, just before and just after the limits the  *)
(* code compares against: the rate window and the failure cooldown.        *)
WindowSteps == {1, rate_limit.window_seconds - 1, rate_limit.window_seconds}

CooldownSteps == {1, Cooldown - 1, Cooldown, Cooldown + 1}

(* Between searches the clock advances by the cooldown: the rate window   *)
(* has emptied while an engine marked before the advance is still failing. *)
SearchSteps == {Cooldown}

Tick(steps) ==
    /\ ticks < MaxTicks
    /\ \E d \in steps : now' = now + d
    /\ ticks' = ticks + 1
    /\ call' = [op |-> "tick"]
    /\ UNCHANGED <<faults, ddgs_available, rate_limit, search_timestamps,
                   failed_engines, ret, trace, log, marked, providers, MCP_AVAILABLE, threads,
                   api_calls, CONFIG,
                   processes>>

----------------------------------------------------------------------------
(* Direct calls of the limiter and of the health tracker *)

CheckRateLimit ==
    /\ Len(log) < MaxChecks
    /\ LET r == check_rate_limit(search_timestamps, now, rate_limit)
       IN  /\ search_timestamps' = r.ts
           /\ ret' = [raised |-> FALSE, value |-> r.ok]
           /\ log' = Append(log, [t |-> now, ok |-> r.ok])
    /\ call' = [op |-> "check_rate_limit"]
    /\ UNCHANGED <<now, ticks, faults, ddgs_available, rate_limit,
                   failed_engines, trace, marked, providers, MCP_AVAILABLE, threads, api_calls, CONFIG,
                   processes>>

IsEngineFailing(e) ==
    /\ LET r == is_engine_failing(failed_engines, e, now)
       IN  /\ failed_engines' = r.fe
           /\ ret' = [raised |-> FALSE, value |-> r.failing]
    /\ call' = [op |-> "is_engine_failing", engine |-> e]
    /\ UNCHANGED <<now, ticks, faults, ddgs_available, rate_limit,
                   search_timestamps, trace, log, marked, providers, MCP_AVAILABLE, threads,
                   api_calls, CONFIG,
                   processes>>

MarkEngineFailed(e) ==
    /\ faults < MaxMarks
    /\ faults' = faults + 1
    /\ failed_engines' = mark_engine_failed(failed_engines, e, now)
    /\ marked' = Marks(failed_engines, failed_engines', marked)
    /\ ret' = [raised |-> FALSE, value |-> FALSE]
    /\ call' = [op |-> "mark_engine_failed", engine |-> e,
                prev |-> IF e \in DOMAIN failed_engines
                         THEN << failed_engines[e] >> ELSE << >>]
    /\ UNCHANGED <<now, ticks, ddgs_available, rate_limit,
                   search_timestamps, trace, log, providers, MCP_AVAILABLE, threads, api_calls, CONFIG,
                   processes>>

(* The sleep of retry_with_delay is a clock advance, counted with the      *)
(* others.                                                                 *)
RetryWithDelay(e) ==
    /\ e \in DOMAIN failed_engines => ticks < MaxTicks + MaxSleeps
    /\ ticks' = IF e \in DOMAIN failed_engines THEN ticks + 1 ELSE ticks
    /\ \E delay \in Delays :
          LET r == retry_with_delay(failed_engines, e, now, delay)
          IN  /\ failed_engines' = r.fe
              /\ now' = r.now
              /\ ret' = [raised |-> FALSE, value |-> r.ok]
    /\ call' = [op |-> "retry_with_delay", engine |-> e]
    /\ UNCHANGED <<faults, ddgs_available, rate_limit,
                   search_timestamps, trace, log, marked, providers,
                   api_calls, MCP_AVAILABLE, threads, CONFIG,
                   processes>>

----------------------------------------------------------------------------
(* Searches *)

(* The caller asks for as many results as a result page can hold.          *)
NumResults == {MaxResults}

Search(q, n) ==
    /\ \E o \in search_with_fallbacks(search_timestamps, failed_engines, now,
                                      q, n, faults) :
        /\ search_timestamps' = o.ts
        /\ failed_engines' = o.fe
        /\ faults' = o.faults
        /\ trace' = o.trace
        /\ ret' = [raised |-> o.raised, value |-> o.value]
    /\ marked' = Marks(failed_engines, failed_engines', marked)
    /\ api_calls' = Called(api_calls, trace', now, rate_limit)
    /\ call' = [op |-> "search_with_fallbacks"]
    /\ UNCHANGED <<now, ticks, ddgs_available, rate_limit, log, providers, MCP_AVAILABLE, threads, CONFIG,
                   processes>>

SearchYoutubeVideos(q, n) ==
    /\ \E o \in search_youtube_videos(search_timestamps, failed_engines, now,
                                      q, n, faults) :
        /\ search_timestamps' = o.ts
        /\ failed_engines' = o.fe
        /\ faults' = o.faults
        /\ trace' = o.trace
        /\ ret' = [raised |-> o.raised, value |-> o.value]
        /\ call' = [op |-> "search_youtube_videos", query |-> q, num_results |-> n,
                    general |-> o.general]
    /\ marked' = Marks(failed_engines, failed_engines', marked)
    /\ api_calls' = Called(api_calls, trace', now, rate_limit)
    /\ UNCHANGED <<now, ticks, ddgs_available, rate_limit, log, providers, MCP_AVAILABLE, threads, CONFIG,
                   processes>>

HandleImageSearch(q, n) ==
    /\ \E o \in handle_image_search(search_timestamps, failed_engines, now,
                                    q, n, faults) :
        /\ search_timestamps' = o.ts
        /\ failed_engines' = o.fe
        /\ faults' = o.faults
        /\ trace' = o.trace
        /\ ret' = [raised |-> o.raised, value |-> o.value]
        /\ call' = [op |-> "handle_image_search", query |-> q, num_results |-> n,
                    general |-> o.general]
    /\ marked' = Marks(failed_engines, failed_engines', marked)
    /\ api_calls' = Called(api_calls, trace', now, rate_limit)
    /\ UNCHANGED <<now, ticks, ddgs_available, rate_limit, log, providers, MCP_AVAILABLE, threads, CONFIG,
                   processes>>

(* The functions for direct import, web.py:867-900 *)
Public(op, q, n, outcomes) ==
    /\ \E o \in outcomes :
        /\ search_timestamps' = o.ts
        /\ failed_engines' = o.fe
        /\ faults' = o.faults
        /\ trace' = o.trace
        /\ ret' = [raised |-> o.raised, value |-> o.value]
        /\ call' = [op |-> op, query |-> q, num_results |-> n,
                    general |-> o.general, checks |-> o.checks]
    /\ marked' = Marks(failed_engines, failed_engines', marked)
    /\ api_calls' = Called(api_calls, trace', now, rate_limit)
    /\ UNCHANGED <<now, ticks, ddgs_available, rate_limit, log, providers,
                   MCP_AVAILABLE, threads, CONFIG,
                   processes>>

CallSearch(q, n) ==
    Public("search", q, n,
           search(search_timestamps, failed_engines, now, q, n, faults))

CallSearchVideos(q, n) ==
    Public("search_videos", q, n,
           search_videos(search_timestamps, failed_engines, now, q, n, faults))

CallSearchImages(q, n) ==
    Public("search_images", q, n,
           search_images(search_timestamps, failed_engines, now, q, n, faults))


(* check_rate_limit called from several threads, web.py:66-82.  The        *)
(* function takes no lock; the interpreter may switch threads between any  *)
(* two of its steps: reading the clock (69), building the filtered list    *)
(* (73, right-hand side), binding it to the global (73), testing its       *)
(* length (76) and appending (81).                                         *)
Enter ==
    /\ Len(threads) < MaxThreads
    /\ threads' = Append(threads, [pc |-> "filter", current_time |-> now,
                                    kept |-> << >>, ok |-> FALSE])
    /\ call' = [op |-> "enter"]
    /\ UNCHANGED <<now, ticks, faults, ddgs_available, rate_limit,
                   search_timestamps, failed_engines, ret, trace, log, marked,
                   providers, api_calls, MCP_AVAILABLE, CONFIG,
                   processes>>

Step(i) ==
    LET th == threads[i]
    IN  /\ th.pc # "done"
        /\ \/ /\ th.pc = "filter"
              /\ threads' = [threads EXCEPT ![i].pc = "store",
                                ![i].kept = InWindow(search_timestamps,
                                                     th.current_time, rate_limit)]
              /\ UNCHANGED search_timestamps
           \/ /\ th.pc = "store"
              /\ search_timestamps' = th.kept
              /\ threads' = [threads EXCEPT ![i].pc = "check"]
           \/ /\ th.pc = "check"
              /\ threads' = [threads EXCEPT ![i].pc =
                                IF Len(search_timestamps) >= rate_limit.max_requests
                                THEN "done" ELSE "append"]
              /\ UNCHANGED search_timestamps
           \/ /\ th.pc = "append"
              /\ search_timestamps' = Append(search_timestamps, th.current_time)
              /\ threads' = [threads EXCEPT ![i].pc = "done", ![i].ok = TRUE]
        /\ call' = [op |-> "step", thread |-> i]
        /\ UNCHANGED <<now, ticks, faults, ddgs_available, rate_limit,
                       failed_engines, ret, trace, log, marked, providers,
                       api_calls, MCP_AVAILABLE, CONFIG,
                   processes>>

(* The classification chain of handle_search applied to one URL,          *)
(* web.py:717-741, next to what each classifier function says of it        *)
Classify(url) ==
    /\ ret' = [raised |-> FALSE,
               value |-> [youtube_id |-> extract_youtube_id(url),
                          image |-> is_image_url(url),
                          video |-> is_video_url(url),
                          multimedia |-> Multimedia(url, "T")]]
    /\ call' = [op |-> "classify", url |-> url]
    /\ UNCHANGED <<now, ticks, faults, ddgs_available, rate_limit,
                   search_timestamps, failed_engines, trace, log, marked,
                   providers, api_calls, MCP_AVAILABLE, threads, CONFIG,
                   processes>>

(* A search that follows another: the call keeps the attempts of the call *)
(* before it and the failure map it started from                           *)
SearchNext(q, n) ==
    /\ \E o \in search_with_fallbacks(search_timestamps, failed_engines, now,
                                      q, n, faults) :
        /\ search_timestamps' = o.ts
        /\ failed_engines' = o.fe
        /\ faults' = o.faults
        /\ trace' = o.trace
        /\ ret' = [raised |-> o.raised, value |-> o.value]
    /\ marked' = Marks(failed_engines, failed_engines', marked)
    /\ api_calls' = Called(api_calls, trace', now, rate_limit)
    /\ call' = [op |-> "search_with_fallbacks", previous |-> trace,
                failed_before |-> failed_engines]
    /\ UNCHANGED <<now, ticks, ddgs_available, rate_limit, log, providers,
                   MCP_AVAILABLE, threads, CONFIG,
                   processes>>

(* is_engine_failing called from several threads, web.py:85-96.  The      *)
(* function takes no lock; a thread switch may fall between any two of its *)
(* statements: reading the clock (87), the membership test (89), the       *)
(* comparison that reads the entry (91) and the deletion (92).  Reading or *)
(* deleting an entry that is no longer there raises KeyError.              *)
EnterHealth(e) ==
    /\ Len(threads) < MaxThreads
    /\ threads' = Append(threads, [pc |-> "in", engine |-> e,
                                    current_time |-> now, raised |-> FALSE,
                                    failing |-> FALSE])
    /\ call' = [op |-> "enter", engine |-> e]
    /\ UNCHANGED <<now, ticks, faults, ddgs_available, rate_limit,
                   search_timestamps, failed_engines, ret, trace, log, marked,
                   providers, api_calls, MCP_AVAILABLE, CONFIG,
                   processes>>

StepHealth(i) ==
    LET th == threads[i]
        e == th.engine
    IN  /\ th.pc # "done"
        /\ \/ /\ th.pc = "in"
              /\ threads' = [threads EXCEPT ![i].pc =
                                IF e \in DOMAIN failed_engines
                                THEN "compare" ELSE "done"]
              /\ UNCHANGED failed_engines
           \/ /\ th.pc = "compare"
              /\ threads' =
                    IF e \notin DOMAIN failed_engines
                    THEN [threads EXCEPT ![i].pc = "done", ![i].raised = TRUE]
                    ELSE IF th.current_time - failed_engines[e] > Cooldown
                    THEN [threads EXCEPT ![i].pc = "del"]
                    ELSE [threads EXCEPT ![i].pc = "done", ![i].failing = TRUE]
              /\ UNCHANGED failed_engines
           \/ /\ th.pc = "del"
              /\ threads' =
                    IF e \notin DOMAIN failed_engines
                    THEN [threads EXCEPT ![i].pc = "done", ![i].raised = TRUE]
                    ELSE [threads EXCEPT ![i].pc = "done"]
              /\ failed_engines' =
                    IF e \notin DOMAIN failed_engines THEN failed_engines
                    ELSE Forget(failed_engines, e)
        /\ call' = [op |-> "step", thread |-> i]
        /\ UNCHANGED <<now, ticks, faults, ddgs_available, rate_limit,
                       search_timestamps, ret, trace, log, marked, providers,
                       api_calls, MCP_AVAILABLE, CONFIG,
                   processes>>

(* Running the module, web.py:1-926.  The def statements of the file, in   *)
(* order, each with the scope whose execution binds its name: the module   *)
(* body, the module body under `if MCP_AVAILABLE:` (580, 651), or the body *)
(* of a function.                                                          *)
Defs ==
    << [name |-> "check_rate_limit", scope |-> "module"],
       [name |-> "is_engine_failing", scope |-> "module"],
       [name |-> "mark_engine_failed", scope |-> "module"],
       [name |-> "retry_with_delay", scope |-> "module"],
       [name |-> "search_google_fallback", scope |-> "module"],
       [name |-> "search_bing_fallback", scope |-> "module"],
       [name |-> "search_yandex_fallback", scope |-> "module"],
       [name |-> "search_duckduckgo_html_fallback", scope |-> "module"],
       [name |-> "search_startpage_fallback", scope |-> "module"],
       [name |-> "search_youtube_videos", scope |-> "module"],
       [name |-> "search_ecosia_fallback", scope |-> "module"],
       [name |-> "search_with_fallbacks", scope |-> "module"],
       [name |-> "extract_youtube_id", scope |-> "module"],
       [name |-> "is_image_url", scope |-> "module"],
       [name |-> "is_video_url", scope |-> "module"],
       [name |-> "list_tools", scope |-> "if MCP_AVAILABLE"],
       [name |-> "call_tool", scope |-> "if MCP_AVAILABLE"],
       [name |-> "handle_search", scope |-> "module"],
       [name |-> "handle_video_search", scope |-> "module"],
       [name |-> "handle_image_search", scope |-> "module"],
       [name |-> "search", scope |-> "module"],
       [name |-> "search_videos", scope |-> "module"],
       [name |-> "search_images", scope |-> "module"],
       [name |-> "main", scope |-> "search_images"] >>

(* The function names bound in the module namespace once the module body   *)
(* has run                                                                  *)
Bound ==
    { Defs[i].name : i \in { j \in 1..Len(Defs) :
          \/ Defs[j].scope = "module"
          \/ Defs[j].scope = "if MCP_AVAILABLE" /\ MCP_AVAILABLE } }

(* The entry point, web.py:920-926, reached when the module runs as        *)
(* __main__: looking up a name that is not bound raises NameError.         *)
EntryPoint ==
    IF MCP_AVAILABLE
    THEN IF "main" \in Bound
         THEN [raised |-> FALSE, value |-> "serving"]
         ELSE [raised |-> TRUE, value |-> "NameError"]
    ELSE [raised |-> FALSE, value |-> "standalone"]

RunModule(name) ==
    /\ ret' = IF name = "__main__" THEN EntryPoint
              ELSE [raised |-> FALSE, value |-> "imported"]
    /\ call' = [op |-> "run", name |-> name]
    /\ UNCHANGED <<now, ticks, faults, ddgs_available, rate_limit,
                   search_timestamps, failed_engines, trace, log, marked,
                   providers, api_calls, MCP_AVAILABLE, threads, CONFIG,
                   processes>>

----------------------------------------------------------------------------
(* The terminal server, src/servers/terminal/src/terminal.py.  A path is    *)
(* the sequence of its components below the root                            *)

MaxOutput == 2

DefaultMaxOutputLength == 10000
DefaultCommandTimeout == 300

ALLOWED_DIRS ==
    IF "allowed_directories" \in DOMAIN CONFIG
    THEN CONFIG.allowed_directories ELSE << >>

MAX_OUTPUT_LENGTH ==
    IF "max_output_length" \in DOMAIN CONFIG
    THEN CONFIG.max_output_length ELSE DefaultMaxOutputLength

TIMEOUT ==
    IF "command_timeout" \in DOMAIN CONFIG
    THEN CONFIG.command_timeout ELSE DefaultCommandTimeout

(* The symbolic links of the file system that Path.resolve() follows *)
Links == [p \in {<<"srv", "out">>} |-> <<"tmp">>]

Follow(p) == IF p \in DOMAIN Links THEN Links[p] ELSE p

(* Path.resolve(): ".." and "." are collapsed and links are followed *)
RECURSIVE resolve_from(_, _)
resolve_from(done, rest) ==
    IF rest = << >> THEN done
    ELSE LET c == Head(rest)
             next == IF c = ".."
                     THEN IF done = << >> THEN << >>
                          ELSE SubSeq(done, 1, Len(done) - 1)
                     ELSE IF c = "." THEN done
                     ELSE Follow(Append(done, c))
         IN  resolve_from(next, Tail(rest))

resolve(path) == resolve_from(<< >>, path)

(* Path.relative_to(): succeeds when base is a leading part of path *)
relative_to(path, base) ==
    /\ Len(base) <= Len(path)
    /\ SubSeq(path, 1, Len(base)) = base

is_path_allowed_unresolved(path) ==
    \E i \in 1..Len(ALLOWED_DIRS) : relative_to(path, resolve(ALLOWED_DIRS[i]))

is_path_allowed(path) ==
    \E i \in 1..Len(ALLOWED_DIRS) :
        relative_to(resolve(path), resolve(ALLOWED_DIRS[i]))

(* A requested directory is None, the empty string, or a path; only a path *)
(* is truthy                                                                *)
Requested(working_dir) == working_dir.kind = "path"

get_allowed_working_dir(requested_dir) ==
    IF Requested(requested_dir)
    THEN IF is_path_allowed(requested_dir.path)
         THEN [raised |-> FALSE, value |-> resolve(requested_dir.path)]
         ELSE [raised |-> TRUE, value |-> "Directory not allowed"]
    ELSE IF ALLOWED_DIRS # << >>
         THEN [raised |-> FALSE, value |-> resolve(ALLOWED_DIRS[1])]
         ELSE [raised |-> TRUE, value |-> "No allowed directories configured"]

(* shlex.split() raises ValueError on an unbalanced quote *)
shlex_split(command) ==
    IF command = "'"
    THEN [raised |-> TRUE, value |-> "No closing quotation"]
    ELSE [raised |-> FALSE, value |-> <<command>>]

(* Output of a command: a text of up to MaxOutput characters *)
Texts == UNION { [1..k -> {"x"}] : k \in 0..MaxOutput }

(* text[:MAX_OUTPUT_LENGTH] followed by the note of how much was cut *)
Truncate(text) ==
    IF Len(text) > MAX_OUTPUT_LENGTH
    THEN [text |-> SubSeq(text, 1, MAX_OUTPUT_LENGTH),
          truncated |-> Len(text) - MAX_OUTPUT_LENGTH]
    ELSE [text |-> text, truncated |-> 0]

(* The except clause of run_command *)
Exception(message, working_dir) ==
    [stdout |-> << >>, stderr |-> message, exit_code |-> -1,
     working_dir |-> IF Requested(working_dir) THEN working_dir.path
                     ELSE "unknown",
     error |-> "exception"]

(* What the exit codes of a command can be *)
ExitCodes == {0, 1}

(* The timeout branch without the wait for the killed process *)
TimedOut_unawaited(cwd, command) ==
    [value |-> [stdout |-> << >>, stderr |-> "Command timed out",
                exit_code |-> -1, working_dir |-> cwd, error |-> "timeout"],
     processes |-> << [cwd |-> cwd, command |-> command, at_deadline |-> "running",
                       events |-> <<"create", "communicate", "kill">>] >>]

(* The timeout branch: process.kill(), await process.wait(), the result *)
TimedOut(cwd, command) ==
    [value |-> [stdout |-> << >>, stderr |-> "Command timed out",
                exit_code |-> -1, working_dir |-> cwd, error |-> "timeout"],
     processes |-> << [cwd |-> cwd, command |-> command, at_deadline |-> "running",
                       events |-> <<"create", "communicate", "kill", "wait">>] >>]

(* The command finished in time: decoded and truncated output *)
Finished(cwd, command) ==
    { [value |-> [stdout |-> Truncate(out), stderr |-> Truncate(err),
                  exit_code |-> code, working_dir |-> cwd],
       processes |-> << [cwd |-> cwd, command |-> command,
                         at_deadline |-> "finished",
                         events |-> <<"create", "communicate">>] >>] :
        out \in Texts, err \in Texts, code \in ExitCodes }

(* The process ended just as the timeout fired: its transport is closed and *)
(* process.kill() raises ProcessLookupError, which the except clause takes   *)
Vanished(cwd, command, working_dir) ==
    [value |-> Exception("ProcessLookupError", working_dir),
     processes |-> << [cwd |-> cwd, command |-> command, at_deadline |-> "closed",
                       events |-> <<"create", "communicate", "kill">>] >>]

(* Every outcome of run_command(command, working_dir, shell): the result   *)
(* and the processes it created.  The subprocess may fail to start          *)
run_command(command, working_dir, shell) ==
    LET dir == get_allowed_working_dir(working_dir)
        cwd == dir.value
        parts == shlex_split(command)
    IN  IF dir.raised
        THEN { [value |-> Exception(dir.value, working_dir), processes |-> << >>] }
        ELSE IF ~ shell /\ parts.raised
        THEN { [value |-> Exception(parts.value, working_dir),
                processes |-> << >>] }
        ELSE { [value |-> Exception("OSError", working_dir), processes |-> << >>] }
             \cup Finished(cwd, command)
             \cup { TimedOut(cwd, command) }
             \cup { Vanished(cwd, command, working_dir) }

RunCommand(command, working_dir, shell) ==
    /\ \E o \in run_command(command, working_dir, shell) :
          /\ ret' = [raised |-> FALSE, value |-> o.value]
          /\ processes' = processes \o o.processes
    /\ call' = [op |-> "run_command", command |-> command,
                working_dir |-> working_dir, shell |-> shell]
    /\ UNCHANGED <<now, ticks, faults, ddgs_available, rate_limit,
                   search_timestamps, failed_engines, trace, log, marked,
                   providers, api_calls, MCP_AVAILABLE, threads, CONFIG>>

----------------------------------------------------------------------------
(* Initial states *)

InitModule ==
    /\ now = 0
    /\ ticks = 0
    /\ faults = 0
    /\ search_timestamps = << >>
    /\ failed_engines = << >>
    /\ call = [op |-> "init"]
    /\ ret = [raised |-> FALSE, value |-> FALSE]
    /\ trace = << >>
    /\ log = << >>
    /\ marked = << >>
    /\ api_calls = << >>
    /\ threads = << >>
    /\ processes = << >>

(* The web-search module alone: the terminal configuration is empty *)
InitCommon ==
    /\ InitModule
    /\ CONFIG = << >>

(* Providers that answer with well-formed items only *)
PlainProviders ==
    [html |-> Pages(RawItems, MaxResults), text |-> Pages(ApiItems, MaxResults),
     images |-> Pages(ImageItems, MaxResults), errors |-> MaxFaults]

DefaultRateLimit ==
    [max_requests |-> DefaultMaxRequests, window_seconds |-> DefaultWindowSeconds]

(* The limiter on its own, for every small limit and window *)
InitRate ==
    /\ InitCommon
    /\ MCP_AVAILABLE = TRUE
    /\ providers = PlainProviders
    /\ ddgs_available = TRUE
    /\ rate_limit \in
         [max_requests : 1..MaxLimit, window_seconds : {2, DefaultWindowSeconds}]

NextRate == Tick(WindowSteps) \/ CheckRateLimit

SpecRate == InitRate /\ [][NextRate]_vars

(* The health tracker on its own *)
InitHealth ==
    /\ InitCommon
    /\ MCP_AVAILABLE = TRUE
    /\ providers = PlainProviders
    /\ ddgs_available = TRUE
    /\ rate_limit = DefaultRateLimit

NextHealth ==
    \/ Tick(CooldownSteps)
    \/ \E e \in Engines : IsEngineFailing(e)
    \/ \E e \in Engines : MarkEngineFailed(e)

SpecHealth == InitHealth /\ [][NextHealth]_vars

(* Failure marks next to a rate window in use *)
NextMark ==
    \/ Tick(CooldownSteps)
    \/ CheckRateLimit
    \/ \E e \in Engines : MarkEngineFailed(e)

SpecMark == InitHealth /\ [][NextMark]_vars

(* The search entry points *)
Init ==
    /\ InitCommon
    /\ MCP_AVAILABLE = TRUE
    /\ providers = PlainProviders
    /\ ddgs_available \in BOOLEAN
    /\ rate_limit =
         [max_requests |-> MaxRequests, window_seconds |-> DefaultWindowSeconds]

Next ==
    \/ Tick(SearchSteps)
    \/ \E q \in Queries, n \in NumResults : Search(q, n)

Spec == Init /\ [][Next]_vars

(* Searches across an elapsed cooldown *)
ExpirySteps == {Cooldown + 1}

InitExpiry ==
    /\ InitCommon
    /\ MCP_AVAILABLE = TRUE
    /\ providers = PlainProviders
    /\ ddgs_available = TRUE
    /\ rate_limit =
         [max_requests |-> MaxRequests, window_seconds |-> DefaultWindowSeconds]

NextExpiry ==
    \/ Tick(ExpirySteps)
    \/ \E q \in Queries, n \in NumResults : Search(q, n)

SpecExpiry == InitExpiry /\ [][NextExpiry]_vars

(* The three entry points that reach the API provider, around the window.  *)
(* The scraped pages are never empty, so that the chain behind the API     *)
(* engine ends at the first scraped engine that answers.                   *)
ApiProviders ==
    [html |-> Pages(RawItems, MaxResults) \ { << >> },
     text |-> Pages(ApiItems, MaxResults),
     images |-> Pages(ImageItems, MaxResults), errors |-> MaxFaults]

InitApi ==
    /\ InitCommon
    /\ MCP_AVAILABLE = TRUE
    /\ providers = ApiProviders
    /\ ddgs_available = TRUE
    /\ rate_limit \in
         [max_requests : 1..MaxLimit, window_seconds : {DefaultWindowSeconds}]

NextApi ==
    \/ Tick(WindowSteps)
    \/ \E n \in NumResults : Search("rust", n)
    \/ \E n \in NumResults : SearchYoutubeVideos("rust", n)
    \/ \E n \in NumResults : HandleImageSearch("rust", n)

SpecApi == InitApi /\ [][NextApi]_vars

(* Providers whose pages hold elements with parts missing *)
RichItems ==
    { [title |-> "T", link |-> TRUE, href |-> "http://a", snippet |-> "S"],
      [title |-> "U", link |-> TRUE, href |-> "http://b", snippet |-> "S"],
      [title |-> "G", link |-> TRUE, href |-> "/url?q=http://c&sa=U",
       snippet |-> "S"],
      [title |-> "T", link |-> TRUE, href |-> "http://a"],
      [title |-> "T", link |-> TRUE, snippet |-> "S"],
      [link |-> TRUE, href |-> "http://a", snippet |-> "S"] }

RichApiItems ==
    { [title |-> "T", href |-> "http://a", body |-> "S"],
      [title |-> "U", href |-> "http://b", body |-> "S"],
      [title |-> "T", href |-> "http://a"],
      [title |-> "T", body |-> "S"],
      [href |-> "http://a", body |-> "S"] }

RichProviders ==
    [html |-> Pages(RichItems, MaxPage), text |-> Pages(RichApiItems, MaxPage),
     images |-> Pages(ImageItems, MaxPage), errors |-> MaxChainFaults]

(* The server has handled no call yet *)
Fresh == call.op = "init"

InitRecords ==
    /\ InitCommon
    /\ MCP_AVAILABLE = TRUE
    /\ providers = RichProviders
    /\ ddgs_available \in BOOLEAN
    /\ rate_limit =
         [max_requests |-> MaxRequests, window_seconds |-> DefaultWindowSeconds]

(* The first search of a run, in which up to MaxChainFaults engines fail *)
NextRecords == Fresh /\ Search("rust", MaxPage)

SpecRecords == InitRecords /\ [][NextRecords]_vars

(* Providers whose results link to videos, to pages of the video platform  *)
(* that are no videos, and elsewhere                                       *)
VideoUrls ==
    { "https://www.youtube.com/watch?v=abc&t=1",
      "https://youtu.be/xyz?t=2",
      "https://www.youtube.com/shorts/s1",
      "https://www.youtube.com/channel/c",
      "https://www.youtube.com/watch?v=&t=1",
      "http://a" }

(* The links of the scraped pages *)
ScrapedVideoUrls ==
    { "https://youtu.be/xyz?t=2", "https://www.youtube.com/channel/c" }

VideoProviders ==
    [html |-> Pages({ [title |-> "T", link |-> TRUE, href |-> u, snippet |-> "S"]
                      : u \in ScrapedVideoUrls }, MaxPage),
     text |-> Pages({ [title |-> "T", href |-> u, body |-> "S"]
                      : u \in VideoUrls }, MaxPage),
     images |-> Pages(ImageItems, MaxPage), errors |-> MaxFaults]

InitVideo ==
    /\ InitCommon
    /\ MCP_AVAILABLE = TRUE
    /\ providers = VideoProviders
    /\ ddgs_available \in BOOLEAN
    /\ rate_limit \in
         [max_requests : 1..MaxLimit, window_seconds : {DefaultWindowSeconds}]

(* The first video search of a run *)
NextVideo ==
    \E q \in Queries, n \in {1, MaxPage} : Fresh /\ SearchYoutubeVideos(q, n)

SpecVideo == InitVideo /\ [][NextVideo]_vars

(* The functions for direct import, with and without the mcp package, over *)
(* pages that link to a platform video, to an image and to a plain page    *)
PublicUrls ==
    {"https://www.youtube.com/watch?v=abc123", "https://example.com/pic.PNG",
     "http://a"}

PublicProviders ==
    [html |-> Pages({ [title |-> "T", link |-> TRUE, href |-> u, snippet |-> "S"]
                      : u \in PublicUrls }, MaxPage),
     text |-> Pages({ [title |-> "T", href |-> u, body |-> "S"]
                      : u \in PublicUrls }, MaxPage),
     images |-> Pages(ImageItems, MaxPage), errors |-> MaxFaults]

InitPublic ==
    /\ InitCommon
    /\ MCP_AVAILABLE \in BOOLEAN
    /\ providers = PublicProviders
    /\ ddgs_available \in BOOLEAN
    /\ rate_limit = DefaultRateLimit

NextPublic ==
    \/ \E q \in Queries : Fresh /\ CallSearch(q, MaxPage)
    \/ \E q \in Queries : Fresh /\ CallSearchVideos(q, MaxPage)
    \/ \E q \in Queries : Fresh /\ CallSearchImages(q, MaxPage)

SpecPublic == InitPublic /\ [][NextPublic]_vars

(* Concurrent callers of check_rate_limit *)
NextThreads ==
    \/ Tick(WindowSteps)
    \/ Enter
    \/ \E i \in 1..Len(threads) : Step(i)

SpecThreads == InitRate /\ [][NextThreads]_vars

(* The classifier on its own, over URLs made of a site, a name and an      *)
(* ending                                                                  *)
Sites ==
    {"https://www.youtube.com/watch?v=", "https://youtu.be/",
     "https://www.youtube.com/embed/", "https://example.com/"}

Names == {"abc123", "xyz789", "pic", "doc", ""}

Endings == {"", "?t=5", "&t=1", ".PNG", ".png", ".JPG", ".pdf", ".mp4"}

ClassifiedUrls == { s \o m \o e : s \in Sites, m \in Names, e \in Endings }

NextClassify == \E url \in ClassifiedUrls : Fresh /\ Classify(url)

SpecClassify == InitHealth /\ [][NextClassify]_vars

(* Pages longer than the limit asked for, with result elements whose      *)
(* parsing raises, in standalone mode                                      *)
CapItems ==
    { [title |-> "V", link |-> TRUE, href |-> "https://youtu.be/abc",
       snippet |-> "S"],
      [title |-> "W", link |-> TRUE, href |-> "https://youtu.be/xyz",
       snippet |-> "S"],
      [title |-> "T", link |-> TRUE, href |-> "http://a", snippet |-> "S"],
      [broken |-> TRUE] }

CapApiItems ==
    { [title |-> "V", href |-> "https://youtu.be/abc", body |-> "S"],
      [title |-> "W", href |-> "https://youtu.be/xyz", body |-> "S"],
      [title |-> "T", href |-> "http://a", body |-> "S"] }

CapProviders ==
    [html |-> Pages(CapItems, MaxPage), text |-> Pages(CapApiItems, MaxPage),
     images |-> Pages(ImageItems, MaxResults), errors |-> MaxFaults]

InitCap ==
    /\ InitCommon
    /\ MCP_AVAILABLE = FALSE
    /\ providers = CapProviders
    /\ ddgs_available \in BOOLEAN
    /\ rate_limit = DefaultRateLimit

NextCap ==
    \/ \E n \in 1..MaxPage : Fresh /\ CallSearch("rust", n)
    \/ \E n \in 1..MaxPage : Fresh /\ CallSearchVideos("rust", n)

SpecCap == InitCap /\ [][NextCap]_vars

(* The retry check next to the health tracker, with clock advances that   *)
(* land around the retry cooldown once the delay is added                  *)
RetrySteps == {RetryCooldown - 3, RetryCooldown - 2}

RetryEngines == {"google", "bing"}

NextRetry ==
    \/ Tick(RetrySteps)
    \/ \E e \in RetryEngines : MarkEngineFailed(e)
    \/ \E e \in RetryEngines : RetryWithDelay(e)
    \/ \E e \in RetryEngines : IsEngineFailing(e)

SpecRetry == InitHealth /\ [][NextRetry]_vars

(* Concurrent health checks of engines marked before an elapsed cooldown  *)
NextHealthThreads ==
    \/ Tick(ExpirySteps)
    \/ \E e \in RetryEngines : MarkEngineFailed(e)
    \/ \E e \in RetryEngines : EnterHealth(e)
    \/ \E i \in 1..Len(threads) : StepHealth(i)

SpecHealthThreads == InitHealth /\ [][NextHealthThreads]_vars

(* One search and the search that follows it, with engines that answer    *)
(* nothing                                                                 *)
IsFirstSearch ==
    call.op = "search_with_fallbacks" /\ "previous" \notin DOMAIN call

InitEmpty ==
    /\ InitCommon
    /\ MCP_AVAILABLE = TRUE
    /\ providers = PlainProviders
    /\ ddgs_available \in BOOLEAN
    /\ rate_limit \in
         [max_requests : 1..MaxLimit, window_seconds : {DefaultWindowSeconds}]

NextEmpty ==
    \/ \E n \in NumResults : Fresh /\ Search("rust", n)
    \/ \E n \in NumResults :
          /\ IsFirstSearch
          /\ SearchNext("rust", n)

SpecEmpty == InitEmpty /\ [][NextEmpty]_vars

(* The module run as the entry point, or imported and then called *)
ModuleNames == {"__main__", "web"}

Imported == call.op = "run" /\ ret.value = "imported"

InitStartup ==
    /\ InitCommon
    /\ MCP_AVAILABLE \in BOOLEAN
    /\ providers = PlainProviders
    /\ ddgs_available \in BOOLEAN
    /\ rate_limit = DefaultRateLimit

NextStartup ==
    \/ \E name \in ModuleNames : Fresh /\ RunModule(name)
    \/ \E q \in Queries, n \in NumResults : Imported /\ CallSearch(q, n)
    \/ \E q \in Queries, n \in NumResults : Imported /\ CallSearchVideos(q, n)
    \/ \E q \in Queries, n \in NumResults : Imported /\ CallSearchImages(q, n)

SpecStartup == InitStartup /\ [][NextStartup]_vars

(* The terminal server with every small configuration, one command *)
AllowedConfigs ==
    { << >>, << <<"srv">> >>, << <<"srv", "app">>, <<"etc">> >>,
      << <<"srv", "out">> >> }

Configs ==
    { << >> }
    \cup { [allowed_directories |-> a] : a \in AllowedConfigs }
    \cup { [allowed_directories |-> a, max_output_length |-> 1,
            command_timeout |-> 5] : a \in AllowedConfigs }

WorkingDirs ==
    { [kind |-> "none"], [kind |-> "empty"] }
    \cup { [kind |-> "path", path |-> p] :
             p \in { <<"srv">>, <<"srv", "app">>, <<"srv", "..", "etc">>,
                     <<"srv", "out">>, <<"etc">>, <<"tmp">>, << >> } }

Commands == {"ls", "'"}

InitTerminal ==
    /\ InitModule
    /\ MCP_AVAILABLE = TRUE
    /\ providers = PlainProviders
    /\ ddgs_available = TRUE
    /\ rate_limit = DefaultRateLimit
    /\ CONFIG \in Configs

NextTerminal ==
    \E c \in Commands, w \in WorkingDirs, s \in BOOLEAN :
        Fresh /\ RunCommand(c, w, s)

SpecTerminal == InitTerminal /\ [][NextTerminal]_vars

----------------------------------------------------------------------------
(* Vocabulary of the properties *)

IsSearch == call.op = "search_with_fallbacks"

(* Position of an engine in the chain *)
Pos(e) == CHOOSE i \in 1..Len(Chain) : Chain[i] = e

TraceEngines == [i \in 1..Len(trace) |-> trace[i].engine]

ScrapedChain == SubSeq(Chain, 2, Len(Chain))

(* Every engine that was attempted came back empty-handed *)
AllEmpty == \A i \in 1..Len(trace) : trace[i].got = 0

IsPlaceholder(v) ==
    /\ Len(v) = 1
    /\ v[1].title = "Search Temporarily Unavailable"
    /\ v[1].url = ""

(* Timestamps of the window that lie within the trailing window_seconds *)
Recent(ts) == { i \in 1..Len(ts) : now - ts[i] < rate_limit.window_seconds }

----------------------------------------------------------------------------
(* C1: short-circuit.  In a call of search_with_fallbacks, once the engine *)
(* at some position of the chain has returned a non-empty result set, no   *)
(* engine at a later position is invoked in that call.                     *)
C1_ShortCircuit ==
    IsSearch =>
        \A i, j \in 1..Len(trace) :
            trace[i].got > 0 => Pos(trace[j].engine) <= Pos(trace[i].engine)

(* A search that bing won after the engines before it came back empty *)
C1_Witness ==
    /\ IsSearch
    /\ Len(trace) >= 3
    /\ trace[Len(trace)].engine = "bing"
    /\ trace[Len(trace)].got > 0

(* C2 as stated: when every engine returns empty or fails, every engine of *)
(* the chain is invoked, in chain order, whatever the limiter and the      *)
(* health state say, and the single placeholder is returned.               *)
C2_Original ==
    (IsSearch /\ AllEmpty) =>
        /\ TraceEngines = Chain
        /\ IsPlaceholder(ret.value)

(* C2 amended: when every attempted engine returns empty or fails, the six *)
(* scraped adapters are all called, in chain order, whatever the health    *)
(* state; the API engine is called before them exactly when the library is *)
(* available and the limiter admits the call; the single placeholder is    *)
(* returned.                                                               *)
C2_Exhaustion ==
    [][ (call'.op = "search_with_fallbacks"
            /\ \A i \in 1..Len(trace') : trace'[i].got = 0) =>
        /\ TraceEngines' =
             IF ddgs_available
                /\ Cardinality(Recent(search_timestamps)) < rate_limit.max_requests
             THEN Chain ELSE ScrapedChain
        /\ IsPlaceholder(ret'.value)
        /\ ~ ret'.raised ]_vars

(* An exhausted search that the limiter kept away from the API engine and  *)
(* that met a failing scraped engine on its way                            *)
C2_Witness ==
    /\ IsSearch
    /\ AllEmpty
    /\ ddgs_available
    /\ TraceEngines = ScrapedChain
    /\ \E i \in 1..Len(trace) : ~ trace[i].request
    /\ IsPlaceholder(ret.value)

(* C3: search_with_fallbacks returns normally, with at least one record,   *)
(* whatever the engines answer and whatever the rate and health state.     *)
C3_NeverFails ==
    IsSearch => (~ ret.raised /\ Len(ret.value) >= 1)

(* A search in which a provider request ended in an error *)
C3_Witness ==
    /\ IsSearch
    /\ \E i \in 1..Len(trace) : trace[i].status = "error"
    /\ ~ ret.raised
    /\ Len(ret.value) >= 1

----------------------------------------------------------------------------
(* C4: the window never holds more than max_requests timestamps that lie   *)
(* within the trailing window_seconds, and a denied call is not counted:   *)
(* every timestamp held was recorded by an admitted call at that time.     *)
C4_WindowBounded ==
    /\ Cardinality(Recent(search_timestamps)) <= rate_limit.max_requests
    /\ \A i \in 1..Len(search_timestamps) :
          Cardinality({ j \in 1..Len(search_timestamps) :
                          search_timestamps[j] = search_timestamps[i] })
          <= Cardinality({ k \in 1..Len(log) :
                          log[k].ok /\ log[k].t = search_timestamps[i] })

(* A denied call on a full window *)
C4_Witness ==
    /\ call.op = "check_rate_limit"
    /\ ret.value = FALSE
    /\ Cardinality(Recent(search_timestamps)) = rate_limit.max_requests
    /\ Len(log) > Len(search_timestamps)

(* C5: check_rate_limit drops every timestamp that is window_seconds old   *)
(* or older and keeps the others in order; it returns true and appends the *)
(* current time iff fewer than max_requests remain, and otherwise returns  *)
(* false and leaves the purged window as it is.                            *)
C5_CheckRateLimit ==
    [][ call'.op = "check_rate_limit" =>
        LET c == Cardinality(Recent(search_timestamps))
            kept == SubSeq(search_timestamps,
                           Len(search_timestamps) - c + 1, Len(search_timestamps))
        IN  /\ ret'.value = (c < rate_limit.max_requests)
            /\ search_timestamps' =
                 IF c < rate_limit.max_requests THEN Append(kept, now) ELSE kept
            /\ \A i \in 1..Len(kept) : now - kept[i] < rate_limit.window_seconds
      ]_vars

(* An admitted call that purged the timestamp of the admitted call before  *)
(* it, by then exactly window_seconds old                                  *)
C5_Witness ==
    /\ call.op = "check_rate_limit"
    /\ ret.value = TRUE
    /\ Len(log) >= 2
    /\ log[Len(log) - 1].ok
    /\ now - log[Len(log) - 1].t = rate_limit.window_seconds
    /\ search_timestamps = << now >>

(* C6: from an empty window, the first max_requests checks made within     *)
(* window_seconds of the first all succeed, the next check inside that     *)
(* window is denied, and a check made once window_seconds have passed      *)
(* since every admitted request succeeds.                                  *)
C6_Admission ==
    \A j \in 1..Len(log) :
        /\ (j <= rate_limit.max_requests
              /\ log[j].t - log[1].t < rate_limit.window_seconds) => log[j].ok
        /\ (j = rate_limit.max_requests + 1
              /\ log[j].t - log[1].t < rate_limit.window_seconds) => ~ log[j].ok
        /\ (\A i \in 1..(j - 1) :
              log[i].ok => log[j].t - log[i].t >= rate_limit.window_seconds)
           => log[j].ok

(* max_requests admitted, one denied, then one admitted exactly            *)
(* window_seconds later                                                    *)
C6_Witness ==
    LET m == rate_limit.max_requests
    IN  /\ Len(log) = m + 2
        /\ \A j \in 1..m : log[j].ok
        /\ ~ log[m + 1].ok
        /\ log[m + 2].ok
        /\ log[m + 2].t - log[m].t = rate_limit.window_seconds

----------------------------------------------------------------------------
(* C7 as stated: after mark_engine_failed(E) at time T, is_engine_failing  *)
(* is true strictly between T and T + cooldown and false at or after       *)
(* T + cooldown.                                                           *)
C7_Original ==
    call.op = "is_engine_failing" =>
        (call.engine \in DOMAIN marked =>
            LET T == marked[call.engine]
            IN  /\ (T < now /\ now < T + Cooldown) => ret.value
                /\ now >= T + Cooldown => ~ ret.value)

(* C7 amended: after mark_engine_failed(E) at time T and no later mark,    *)
(* is_engine_failing(E) is true at every query time after T up to and      *)
(* including T + cooldown, and false at every query time after             *)
(* T + cooldown.                                                           *)
C7_Cooldown ==
    call.op = "is_engine_failing" =>
        (call.engine \in DOMAIN marked =>
            LET T == marked[call.engine]
            IN  /\ (T < now /\ now <= T + Cooldown) => ret.value
                /\ now > T + Cooldown => ~ ret.value)

(* A query exactly cooldown seconds after the mark *)
C7_Witness ==
    /\ call.op = "is_engine_failing"
    /\ call.engine \in DOMAIN marked
    /\ now = marked[call.engine] + Cooldown
    /\ ret.value

(* C8: a scraped adapter called while is_engine_failing holds for its      *)
(* engine returns an empty result set, issues no request and leaves the    *)
(* engine's failure time as it was.                                        *)
C8_FailingSkipped ==
    [][ \A e \in Scraped :
          (/\ call'.op = "search_with_fallbacks"
           /\ e \in DOMAIN failed_engines
           /\ now - failed_engines[e] <= Cooldown
           /\ \E i \in 1..Len(trace') : trace'[i].engine = e)
          => /\ \A i \in 1..Len(trace') :
                  trace'[i].engine = e =>
                      (~ trace'[i].request /\ trace'[i].got = 0)
             /\ e \in DOMAIN failed_engines'
             /\ failed_engines'[e] = failed_engines[e] ]_vars

(* A search that reached a scraped engine marked earlier and still inside  *)
(* its cooldown                                                            *)
C8_Witness ==
    /\ IsSearch
    /\ \E i \in 1..Len(trace) :
          /\ trace[i].engine \in Scraped
          /\ ~ trace[i].request
          /\ trace[i].engine \in DOMAIN failed_engines
          /\ failed_engines[trace[i].engine] < now

(* C9: once a failure of the API engine was recorded at time T, no search  *)
(* calls the API engine until now - T > cooldown.                          *)
C9_ApiGated ==
    (/\ IsSearch
     /\ ApiEngine \in DOMAIN marked
     /\ marked[ApiEngine] < now
     /\ now - marked[ApiEngine] <= Cooldown)
    => \A i \in 1..Len(trace) : trace[i].engine # ApiEngine

----------------------------------------------------------------------------
(* C10: mark_engine_failed(E) sets E's failure time to the current time,   *)
(* whatever E's earlier record, and changes neither the record of another  *)
(* engine nor the rate window.                                             *)
C10_MarkFrame ==
    [][ call'.op = "mark_engine_failed" =>
        LET e == call'.engine
        IN  /\ DOMAIN failed_engines' = (DOMAIN failed_engines) \cup {e}
            /\ failed_engines'[e] = now
            /\ \A x \in (DOMAIN failed_engines) \ {e} :
                  failed_engines'[x] = failed_engines[x]
            /\ search_timestamps' = search_timestamps ]_vars

(* A mark that overwrote an older record of its engine while the rate      *)
(* window was in use                                                       *)
C10_Witness ==
    /\ call.op = "mark_engine_failed"
    /\ call.prev # << >>
    /\ call.prev[1] < now
    /\ failed_engines[call.engine] = now
    /\ search_timestamps # << >>

----------------------------------------------------------------------------
(* C11: lazy expiry.  A search that walks the whole chain leaves no        *)
(* failure entry whose cooldown is over (every recorded engine has a check *)
(* on the search path that deletes it), and no search removes an entry     *)
(* whose cooldown has not elapsed.                                         *)
C11_LazyExpiry ==
    [][ call'.op = "search_with_fallbacks" =>
        /\ (\A i \in 1..Len(trace') : trace'[i].got = 0) =>
              \A e \in DOMAIN failed_engines' :
                  now - failed_engines'[e] <= Cooldown
        /\ \A e \in DOMAIN failed_engines :
              now - failed_engines[e] <= Cooldown => e \in DOMAIN failed_engines'
      ]_vars

----------------------------------------------------------------------------
(* The entry points that reach a provider *)
IsEntryPoint ==
    call.op \in {"search_with_fallbacks", "search_youtube_videos",
                 "handle_image_search"}

(* C12: every provider failure on an adapter call, the API calls of        *)
(* search_youtube_videos and handle_image_search included, is recorded in  *)
(* the health tracker for its engine at the time of the call, yields an    *)
(* empty result set for that attempt and does not reach the caller.        *)
C12_FailuresRecorded ==
    IsEntryPoint =>
        /\ ~ ret.raised
        /\ \A i \in 1..Len(trace) :
              trace[i].status = "error" =>
                  /\ trace[i].got = 0
                  /\ trace[i].engine \in DOMAIN failed_engines
                  /\ failed_engines[trace[i].engine] = now

----------------------------------------------------------------------------
(* The limiter denies a call made now *)
Denying == Cardinality(Recent(search_timestamps)) >= rate_limit.max_requests

(* C13: when check_rate_limit denies the API engine, the search goes on    *)
(* with the next engine of the chain and records no failure for the API    *)
(* engine: its entry in the failure map is what it was.                    *)
C13_DeniedNotRecorded ==
    [][ (call'.op = "search_with_fallbacks" /\ ddgs_available /\ Denying) =>
        /\ trace' # << >>
        /\ trace'[1].engine = Chain[2]
        /\ (ApiEngine \in DOMAIN failed_engines')
              = (ApiEngine \in DOMAIN failed_engines)
        /\ ApiEngine \in DOMAIN failed_engines =>
              failed_engines'[ApiEngine] = failed_engines[ApiEngine] ]_vars

(* A denied search that started at the first scraped engine while the API  *)
(* engine carried an earlier failure                                       *)
C13_Witness ==
    /\ IsSearch
    /\ ddgs_available
    /\ Denying
    /\ trace # << >>
    /\ trace[1].engine = Chain[2]
    /\ ApiEngine \in DOMAIN failed_engines

(* C14: only the API engine is gated by the limiter.  A search changes the *)
(* rate window by its one check at most (purge, and one timestamp when     *)
(* admitted), however many scraped adapters run, and not at all without    *)
(* the API library; while the limiter denies, the first scraped engine is  *)
(* still attempted, with a request unless it is marked failing.            *)
C14_OnlyApiGated ==
    [][ call'.op = "search_with_fallbacks" =>
        LET c == Cardinality(Recent(search_timestamps))
            kept == SubSeq(search_timestamps,
                           Len(search_timestamps) - c + 1, Len(search_timestamps))
        IN  /\ search_timestamps' =
                 IF ~ ddgs_available THEN search_timestamps
                 ELSE IF Denying THEN kept ELSE Append(kept, now)
            /\ (ddgs_available /\ Denying) =>
                  /\ trace' # << >>
                  /\ trace'[1].engine \in Scraped
                  /\ trace'[1].engine \notin DOMAIN failed_engines =>
                        trace'[1].request ]_vars

(* A denied search that a scraped engine answered *)
C14_Witness ==
    /\ IsSearch
    /\ ddgs_available
    /\ Denying
    /\ trace # << >>
    /\ trace[1].engine \in Scraped
    /\ trace[1].request
    /\ trace[1].got > 0

----------------------------------------------------------------------------
(* C15: the API provider receives at most max_requests requests in any     *)
(* window_seconds (requests less than window_seconds apart), counting the  *)
(* text and image lookups of search_with_fallbacks, search_youtube_videos  *)
(* and handle_image_search together, and each request has an admitted      *)
(* check_rate_limit of its own: a timestamp of its time in the window.     *)
C15_ApiVolume ==
    /\ \A i \in 1..Len(api_calls) :
          Cardinality({ j \in 1..Len(api_calls) :
                          /\ api_calls[j] <= api_calls[i]
                          /\ api_calls[i] - api_calls[j] < rate_limit.window_seconds })
          <= rate_limit.max_requests
    /\ \A i \in 1..Len(api_calls) :
          now - api_calls[i] < rate_limit.window_seconds =>
              Cardinality({ j \in 1..Len(api_calls) : api_calls[j] = api_calls[i] })
              <= Cardinality({ j \in 1..Len(search_timestamps) :
                                 search_timestamps[j] = api_calls[i] })

(* An image search kept away from the API provider by a window that        *)
(* earlier requests, a video search among them, had filled                 *)
C15_Witness ==
    /\ call.op = "handle_image_search"
    /\ ApiRequests(trace) = << >>
    /\ rate_limit.max_requests >= 2
    /\ Len(api_calls) = rate_limit.max_requests
    /\ \A i \in 1..Len(api_calls) :
          now - api_calls[i] < rate_limit.window_seconds
    /\ \E i \in 1..Len(api_calls) : api_calls[i] < now

----------------------------------------------------------------------------
(* Raw items as the properties read them *)

(* The raw item carries a URL *)
HasUrl(x) == "href" \in DOMAIN x /\ x.href # ""

(* The raw item carries a description: body from the API, snippet from a   *)
(* scraped page                                                            *)
HasText(x) == "body" \in DOMAIN x \/ "snippet" \in DOMAIN x

TextOf(x) == IF "body" \in DOMAIN x THEN x.body ELSE x.snippet

(* A raw item with a title, an absolute URL and a description *)
ValidRaw(x) ==
    /\ "title" \in DOMAIN x
    /\ HasUrl(x)
    /\ StartsWith(x.href, "http")
    /\ HasText(x)

(* The attempt that ended the last call with results, if there is one *)
Won == trace # << >> /\ trace[Len(trace)].got > 0

Winner == trace[Len(trace)]

(* a can be obtained from b by deleting elements *)
RECURSIVE IsSubsequence(_, _)
IsSubsequence(a, b) ==
    IF a = << >> THEN TRUE
    ELSE IF b = << >> THEN FALSE
    ELSE IF Head(a) = Head(b) THEN IsSubsequence(Tail(a), Tail(b))
    ELSE IsSubsequence(a, Tail(b))

(* C16: every record that search_with_fallbacks returns has a non-empty    *)
(* url; raw records without a URL are dropped before the return.           *)
C16_UrlsNonEmpty ==
    IsSearch => \A i \in 1..Len(ret.value) : ret.value[i].url # ""

(* C17: of the raw page behind the returned results, exactly the items     *)
(* that carry a URL are retained; a retained item that lacks a snippet     *)
(* gets the snippet "No description" and one that lacks a title gets the   *)
(* title "No title".                                                       *)
C17_Normalized ==
    (IsSearch /\ Won) =>
        LET kept == SelectSeq(Winner.page, HasUrl)
        IN  /\ Len(ret.value) = Len(kept)
            /\ \A j \in 1..Len(kept) :
                  /\ ~ HasText(kept[j]) => ret.value[j].snippet = "No description"
                  /\ "title" \notin DOMAIN kept[j] => ret.value[j].title = "No title"

(* C18: first success wins without merging.  When a search returns real    *)
(* results, the engines were tried in chain order, all but the last came   *)
(* back empty, and the value returned is the result set of the last alone, *)
(* in the order of its raw page.                                           *)
C18_FirstSuccessWins ==
    (IsSearch /\ \E i \in 1..Len(trace) : trace[i].got > 0) =>
        /\ Won
        /\ \A i \in 1..(Len(trace) - 1) :
              /\ trace[i].got = 0
              /\ Pos(trace[i].engine) < Pos(trace[i + 1].engine)
        /\ ret.value = Winner.results
        /\ Len(ret.value) <= Len(Winner.page)
        /\ IsSubsequence(
              [j \in 1..Len(ret.value) |-> ret.value[j].title],
              [j \in 1..Len(Winner.page) |->
                  Get(Winner.page[j], "title", "No title")])

(* A search that the third or a later engine answered with two records of  *)
(* different titles                                                        *)
C18_Witness ==
    /\ IsSearch
    /\ Len(trace) >= 3
    /\ Winner.got = 2
    /\ ret.value[1].title # ret.value[2].title
    /\ Winner.engine \in Scraped

(* C19: end to end.  When every engine tried before the last fails with an *)
(* error and the last returns a page of valid records, the search returns  *)
(* exactly those records in page order, every engine before the last (the  *)
(* API engine included) is marked failed at the time of the call, and no   *)
(* other entry of the health map changes.                                  *)
C19_EndToEnd ==
    [][ (/\ call'.op = "search_with_fallbacks"
         /\ trace' # << >>
         /\ \A i \in 1..(Len(trace') - 1) : trace'[i].status = "error"
         /\ trace'[Len(trace')].status = "ok"
         /\ trace'[Len(trace')].page # << >>
         /\ \A j \in 1..Len(trace'[Len(trace')].page) :
               ValidRaw(trace'[Len(trace')].page[j]))
        => LET k == Len(trace')
               page == trace'[k].page
               before == { trace'[i].engine : i \in 1..(k - 1) }
           IN  /\ ~ ret'.raised
               /\ Len(ret'.value) = Len(page)
               /\ \A j \in 1..Len(page) :
                     /\ ret'.value[j].title = page[j].title
                     /\ ret'.value[j].url = page[j].href
                     /\ ret'.value[j].snippet = TextOf(page[j])
               /\ \A e \in before :
                     e \in DOMAIN failed_engines' /\ failed_engines'[e] = now
               /\ \A e \in Engines \ before :
                     /\ (e \in DOMAIN failed_engines') = (e \in DOMAIN failed_engines)
                     /\ e \in DOMAIN failed_engines =>
                           failed_engines'[e] = failed_engines[e] ]_vars

(* The API engine and five scraped engines failed, the last engine of the  *)
(* chain returned two valid records                                        *)
C19_Witness ==
    /\ IsSearch
    /\ Len(trace) = Len(Chain)
    /\ \A i \in 1..(Len(trace) - 1) : trace[i].status = "error"
    /\ Winner.got = 2
    /\ \A j \in 1..Len(Winner.page) : ValidRaw(Winner.page[j])
    /\ Winner.page[1] # Winner.page[2]
    /\ DOMAIN failed_engines = Engines \ {Winner.engine}

----------------------------------------------------------------------------
(* The URL shapes of a platform video and the test URLs that are none *)
VideoShapes ==
    { "youtube.com/watch?v=", "youtu.be/", "youtube.com/embed/",
      "youtube.com/shorts/" }

NoVideoUrls ==
    { "https://www.youtube.com/channel/c",
      "https://www.youtube.com/watch?v=&t=1", "http://a" }

(* C20: every record that search_youtube_videos returns has a URL in which *)
(* a platform URL shape is followed by the video ID the record carries as  *)
(* youtube_id, a non-empty run free of the characters that end an ID, and  *)
(* has embed_url = https://www.youtube.com/embed/<youtube_id>; no record   *)
(* whose URL yields no ID is returned.                                     *)
C20_VideoRecords ==
    call.op = "search_youtube_videos" =>
        \A i \in 1..Len(ret.value) :
            LET r == ret.value[i]
            IN  /\ r.youtube_id # ""
                /\ \A c \in IdStops : ~ Contains(r.youtube_id, c)
                /\ \E shape \in VideoShapes :
                      Contains(r.url, shape \o r.youtube_id)
                /\ r.embed_url = "https://www.youtube.com/embed/" \o r.youtube_id
                /\ r.url \notin NoVideoUrls

(* The API served a video link with a trailing parameter next to a link    *)
(* that is no video; the video alone was returned, with the ID cut at the  *)
(* parameter                                                               *)
C20_Witness ==
    /\ call.op = "search_youtube_videos"
    /\ Len(trace) = 1
    /\ Len(trace[1].page) = 2
    /\ \E j \in 1..2 : trace[1].page[j].href \in NoVideoUrls
    /\ Len(ret.value) = 1
    /\ ret.value[1].url = "https://www.youtube.com/watch?v=abc&t=1"
    /\ ret.value[1].youtube_id = "abc"

----------------------------------------------------------------------------
(* The URLs of a sequence of records *)
Urls(records) == [j \in 1..Len(records) |-> records[j].url]

(* A test URL that is a platform video *)
IsVideoTestUrl(url) == url # "" /\ url \notin NoVideoUrls

(* C21: search_youtube_videos runs search_with_fallbacks, with the query   *)
(* followed by the platform restriction, exactly when its own API request  *)
(* yielded no platform match (not made, failed, empty, or without a video  *)
(* link); it then returns the video records of that search, cut to the     *)
(* limit.  When the API request yielded a match, no other engine is tried  *)
(* and its matches are returned.                                           *)
C21_VideoFallback ==
    call.op = "search_youtube_videos" =>
        LET matched == /\ trace # << >>
                       /\ trace[1].engine = ApiEngine
                       /\ trace[1].got > 0
        IN  /\ (call.general = << >>) = matched
            /\ matched => (Len(trace) = 1 /\ ret.value = trace[1].results)
            /\ ~ matched =>
                  /\ Len(call.general) = 1
                  /\ call.general[1].query =
                        call.query \o " site:youtube.com OR site:youtu.be"
                  /\ Urls(ret.value) =
                        Take(SelectSeq(Urls(call.general[1].value), IsVideoTestUrl),
                             call.num_results)

(* The API answered without a platform match and the chain found a video   *)
C21_Witness ==
    /\ call.op = "search_youtube_videos"
    /\ trace # << >>
    /\ trace[1].engine = ApiEngine
    /\ trace[1].status = "ok"
    /\ trace[1].got = 0
    /\ Len(call.general) = 1
    /\ Len(call.general[1].value) > Len(ret.value)
    /\ Len(ret.value) >= 1

----------------------------------------------------------------------------
(* What an image search reported: the images of the tool result, or the   *)
(* records returned in standalone mode                                     *)
Reported ==
    IF MCP_AVAILABLE THEN Get(ret.value, "images", << >>) ELSE ret.value

ImageHints == " filetype:jpg OR filetype:png OR filetype:gif"

(* C22: search_images reports only image matches.  When the API image      *)
(* lookup yielded nothing, the general search ran with the query extended  *)
(* by the file-type hints, and what is reported is exactly the records of  *)
(* that search whose url the image classifier accepts: every reported      *)
(* result is an image and every image found by the fallback is reported.   *)
C22_ImagesOnly ==
    call.op = "search_images" =>
        /\ \A i \in 1..Len(Reported) : is_image_url(Reported[i].url)
        /\ call.general # << >> =>
              /\ call.general[1].query = call.query \o ImageHints
              /\ Urls(Reported) =
                    SelectSeq(Urls(call.general[1].value), is_image_url)

----------------------------------------------------------------------------
(* The records search_with_fallbacks returned to the general search tool   *)
SearchRecords == call.general[1].value

(* The text items of the tool result, without the multimedia summary       *)
TextItems ==
    LET content == ret.value.content
    IN  SubSeq(content, Len(content) - Len(SearchRecords) + 1, Len(content))

(* The classifier says that the url is a platform video, an image or a     *)
(* video file                                                              *)
IsMultimedia(url) == Multimedia(url, "") # << >>

HandledSearch == call.op = "search" /\ MCP_AVAILABLE /\ ~ ret.value.isError

(* C23: handle_search classifies the url of every record that             *)
(* search_with_fallbacks returned and shows each record's own url and      *)
(* snippet: item i carries the snippet and the url of record i, and when   *)
(* some record's url is a platform video, an image or a video file the     *)
(* result opens with the multimedia summary.                               *)
C23_RecordsShown ==
    HandledSearch =>
        /\ Len(ret.value.content) >= Len(SearchRecords)
        /\ \A i \in 1..Len(SearchRecords) :
              TextItems[i] =
                  ToString(i) \o ". " \o SearchRecords[i].title \o "\n" \o
                  SearchRecords[i].snippet \o "\n" \o
                  SearchRecords[i].url \o "\n"
        /\ (\E i \in 1..Len(SearchRecords) : IsMultimedia(SearchRecords[i].url))
              => /\ Len(ret.value.content) = Len(SearchRecords) + 1
                 /\ Contains(ret.value.content[1], "MULTIMEDIA CONTENT FOUND")

(* C24: classification is advisory in handle_search: the result holds one  *)
(* text item per record returned by search_with_fallbacks, in the order of *)
(* the records (item i is numbered i and carries the title of record i),   *)
(* preceded by at most one multimedia summary; no record is left out,      *)
(* whatever the classifier says of its url.                                *)
C24_Advisory ==
    HandledSearch =>
        /\ Len(ret.value.content) \in {Len(SearchRecords), Len(SearchRecords) + 1}
        /\ \A i \in 1..Len(SearchRecords) :
              StartsWith(TextItems[i],
                         ToString(i) \o ". " \o SearchRecords[i].title \o "\n")
        /\ Len(ret.value.content) = Len(SearchRecords) + 1
              => Contains(ret.value.content[1], "MULTIMEDIA CONTENT FOUND")

C24_Witness ==
    /\ HandledSearch
    /\ Len(SearchRecords) = 2
    /\ IsMultimedia(SearchRecords[1].url)
    /\ ~ IsMultimedia(SearchRecords[2].url)
    /\ Len(ret.value.content) >= 2

----------------------------------------------------------------------------
(* One of the functions for direct import has run *)
IsPublic == call.op \in {"search", "search_videos", "search_images"}

(* A result of size zero, or an error signal *)
ZeroOrError ==
    IF MCP_AVAILABLE
    THEN ret.value.isError \/ ret.value.content = << >>
    ELSE ret.value = << >>

(* C25: for an empty query, search, search_videos and search_images issue  *)
(* no engine call, consume no slot of the rate window, record no engine    *)
(* failure, and return a result of size zero or an error signal.           *)
C25_EmptyQuery ==
    (IsPublic /\ call.query = "") =>
        /\ trace = << >>
        /\ search_timestamps = << >>
        /\ failed_engines = << >>
        /\ ZeroOrError

(* A record of a result sequence *)
IsResultRecord(r) ==
    /\ {"title", "url", "snippet"} \subseteq DOMAIN r
    /\ DOMAIN r \subseteq {"title", "url", "snippet", "youtube_id", "embed_url"}

(* A tool result (a list of text items and an error flag) in MCP mode, a   *)
(* sequence of records in standalone mode                                  *)
WellFormed(v) ==
    IF MCP_AVAILABLE
    THEN /\ v.isError \in BOOLEAN
         /\ Len(v.content) >= 1 \/ call.op = "search"
         /\ \A i \in 1..Len(v.content) : Len(v.content[i]) > 0
    ELSE \A i \in 1..Len(v) : IsResultRecord(v[i])

(* C26: whatever the query and whatever the engines do, search,            *)
(* search_videos and search_images raise nothing to the caller and return  *)
(* a well-formed result.                                                   *)
C26_NeverRaises ==
    IsPublic => (~ ret.raised /\ WellFormed(ret.value))

C26_Witness ==
    /\ IsPublic
    /\ ~ MCP_AVAILABLE
    /\ \E i \in 1..Len(trace) : trace[i].status = "error"
    /\ ~ ret.raised
    /\ Len(ret.value) >= 1

----------------------------------------------------------------------------
(* The callers that check_rate_limit admitted at time t *)
Admitted(t) ==
    { i \in 1..Len(threads) :
        threads[i].pc = "done" /\ threads[i].ok /\ threads[i].current_time = t }

(* C27: when check_rate_limit runs in several threads, its reads and       *)
(* writes of the rate window are serialized: under every interleaving the  *)
(* window holds at most max_requests timestamps that are in the window,    *)
(* and the timestamp of every admitted request that is still in the window *)
(* is in it, once for each request admitted at that time.                  *)
C27_Serialized ==
    /\ Len(InWindow(search_timestamps, now, rate_limit)) <= rate_limit.max_requests
    /\ \A i \in 1..Len(threads) :
          LET t == threads[i].current_time
          IN  (Admitted(t) # {} /\ now - t < rate_limit.window_seconds) =>
                  Len(SelectSeq(search_timestamps, LAMBDA x : x = t))
                      >= Cardinality(Admitted(t))

----------------------------------------------------------------------------
(* The classifier was applied to url *)
Classified(url) == call.op = "classify" /\ call.url = url

(* C28: extract_youtube_id yields abc123 for                               *)
(* https://www.youtube.com/watch?v=abc123 and xyz789 for                   *)
(* https://youtu.be/xyz789?t=5; https://example.com/pic.PNG is an image,   *)
(* whatever the case of its suffix; https://example.com/doc.pdf matches no *)
(* platform pattern, no image extension and no video-file extension, and   *)
(* is a plain web result.                                                  *)
C28_Examples ==
    /\ Classified("https://www.youtube.com/watch?v=abc123") =>
          /\ ret.value.youtube_id = << "abc123" >>
          /\ ret.value.multimedia[1].type = "youtube"
    /\ Classified("https://youtu.be/xyz789?t=5") =>
          /\ ret.value.youtube_id = << "xyz789" >>
          /\ ret.value.multimedia[1].id = "xyz789"
    /\ Classified("https://example.com/pic.PNG") =>
          /\ ret.value.image
          /\ ret.value.multimedia[1].type = "image"
    /\ Classified("https://example.com/doc.pdf") =>
          /\ ret.value.youtube_id = << >>
          /\ ~ ret.value.image
          /\ ~ ret.value.video
          /\ ret.value.multimedia = << >>

C28_Witness ==
    /\ Classified("https://example.com/pic.PNG")
    /\ ret.value.youtube_id = << >>
    /\ ret.value.image

----------------------------------------------------------------------------
(* The number of items asked of the engine of attempt i: the limit of the  *)
(* call, or twice the limit in the general search that the video search    *)
(* runs after its own API request                                          *)
Asked(i) ==
    IF call.op = "search_videos" /\ (i > 1 \/ trace[1].engine \in Scraped)
    THEN 2 * call.num_results
    ELSE call.num_results

(* The API provider returned at most the number of items asked of it *)
Honoured ==
    \A i \in 1..Len(trace) :
        trace[i].engine = ApiEngine => Len(trace[i].page) <= Asked(i)

(* C29: result cap.  Provided the API returned at most the number of items *)
(* asked of it, every scraped adapter returns at most the number of        *)
(* records asked of it, search_with_fallbacks(query, n) returns at most n  *)
(* records, and search_youtube_videos(query, n) returns at most n records, *)
(* from its own API request as well as from the general chain.             *)
C29_ResultCap ==
    (call.op \in {"search", "search_videos"} /\ Honoured) =>
        /\ \A i \in 1..Len(trace) :
              trace[i].engine \in Scraped => trace[i].got <= Asked(i)
        /\ \A i \in 1..Len(call.general) :
              Len(call.general[i].value) <= call.general[i].num_results
        /\ Len(ret.value) <= call.num_results

(* The general chain returned twice as many video records as the video    *)
(* search was asked for                                                    *)
C29_Witness ==
    /\ call.op = "search_videos"
    /\ Honoured
    /\ Len(call.general) = 1
    /\ Len(call.general[1].value) = 2 * call.num_results
    /\ Len(youtube_results(call.general[1].value, "url", "snippet"))
          > call.num_results
    /\ Len(ret.value) = call.num_results
    /\ Winner.engine \in Scraped

(* The elements of the page of attempt i that the adapter looked at *)
Looked(i) == Take(trace[i].page, Asked(i))

(* C30: in a scraped adapter, a result element whose parsing raises is     *)
(* skipped alone: the other elements of the batch are returned, in page    *)
(* order, and the engine is not marked failed.                             *)
C30_ItemSkipped ==
    call.op \in {"search", "search_videos"} =>
        \A i \in 1..Len(trace) :
            (trace[i].engine \in Scraped /\ trace[i].status = "ok") =>
                /\ trace[i].engine \notin DOMAIN failed_engines
                /\ trace[i].page # << >> =>
                      LET rest == SelectSeq(Looked(i), LAMBDA x : ~ Raises(x))
                      IN  /\ trace[i].got = Len(rest)
                          /\ \A j \in 1..Len(rest) :
                                /\ trace[i].results[j].title = rest[j].title
                                /\ trace[i].results[j].url = rest[j].href

(* The winning page opens with an element whose parsing raised *)
C30_Witness ==
    /\ call.op = "search"
    /\ call.num_results = 2
    /\ Won
    /\ Winner.engine \in Scraped
    /\ Len(Winner.page) = 2
    /\ Raises(Winner.page[1])
    /\ Winner.got = 1
    /\ ret.value[1].title = Winner.page[2].title

----------------------------------------------------------------------------
(* C31: retry_with_delay(E) returns true and changes nothing when E has no *)
(* failure record.  When E has one, it returns true and deletes the record *)
(* if and only if more than 30 seconds separate the recorded failure from  *)
(* the clock read after its delay, and otherwise returns false and leaves  *)
(* the record as it is.  An engine it released is not failing for          *)
(* is_engine_failing, however recent its failure.                          *)
C31_Retry ==
    [][ call'.op = "retry_with_delay" =>
          LET e == call'.engine
          IN  IF e \notin DOMAIN failed_engines
              THEN /\ ret'.value = TRUE
                   /\ failed_engines' = failed_engines
                   /\ now' = now
              ELSE /\ ret'.value = (now' - failed_engines[e] > 30)
                   /\ now' - now \in 1..3
                   /\ ret'.value =>
                         /\ e \notin DOMAIN failed_engines'
                         /\ \A x \in (DOMAIN failed_engines) \ {e} :
                               /\ x \in DOMAIN failed_engines'
                               /\ failed_engines'[x] = failed_engines[x]
                         /\ ~ is_engine_failing(failed_engines', e, now').failing
                   /\ ~ ret'.value => failed_engines' = failed_engines ]_vars

(* is_engine_failing says not failing of an engine marked less than 300    *)
(* seconds ago, which retry_with_delay released                            *)
C31_Witness ==
    /\ call.op = "is_engine_failing"
    /\ ret.value = FALSE
    /\ call.engine \in DOMAIN marked
    /\ now - marked[call.engine] < Cooldown
    /\ now - marked[call.engine] > 30

----------------------------------------------------------------------------
(* Attempt x reached its engine, which answered without results *)
EmptyAnswer(x) == x.request /\ x.status = "ok" /\ x.got = 0

----------------------------------------------------------------------------
(* C33: with health checks interleaved statement by statement, with one    *)
(* another and with mark_engine_failed, the comparison and the deletion of *)
(* an expired entry always find the entry: no health check raises on a     *)
(* missing key.                                                            *)
C33_EntryPresent ==
    \A i \in 1..Len(threads) : ~ threads[i].raised

----------------------------------------------------------------------------
(* The general chain inside the video search ended in exhaustion *)
ChainExhausted ==
    /\ Len(call.general) = 1
    /\ IsPlaceholder(call.general[1].value)

(* C34: the placeholder never appears in the result of a video search.     *)
(* When every engine failed or was empty, search_youtube_videos returns    *)
(* the empty sequence, as it does when the engines answered without any    *)
(* video.                                                                  *)
C34_NoPlaceholder ==
    call.op = "search_youtube_videos" =>
        /\ \A i \in 1..Len(ret.value) :
              /\ ret.value[i].title # "Search Temporarily Unavailable"
              /\ ret.value[i].url # ""
        /\ ChainExhausted => ret.value = << >>
        /\ (/\ Len(call.general) = 1
            /\ SelectSeq(Urls(call.general[1].value), IsVideoTestUrl) = << >>)
              => ret.value = << >>

(* Every engine of the chain was tried, none answered, nothing is returned *)
C34_Witness ==
    /\ call.op = "search_youtube_videos"
    /\ ChainExhausted
    /\ \A e \in Scraped : \E i \in 1..Len(trace) : trace[i].engine = e
    /\ \E i \in 1..Len(trace) : trace[i].status = "error"
    /\ ret.value = << >>

----------------------------------------------------------------------------
(* C35 as stated: a general search consults the limiter exactly once.      *)
C35_Original ==
    call.op = "search" => call.checks = 1

(* C35: consumption of the rate window by one call, from an empty window.  *)
(* A general search consults the limiter at most once (once when the API   *)
(* library is available, never without it) and records at most one        *)
(* timestamp; a video search or an image search consults it at most twice  *)
(* and records at most two timestamps; a call records at most one          *)
(* timestamp for each time it consulted the limiter.                       *)
C35_Consumption ==
    IsPublic =>
        /\ Len(search_timestamps) <= call.checks
        /\ call.op = "search" =>
              call.checks = (IF ddgs_available THEN 1 ELSE 0)
        /\ call.checks <= 2
        /\ ~ ddgs_available => call.checks = 0

(* A video search that recorded one timestamp before its own API request   *)
(* and one in the general chain                                            *)
C35_Witness ==
    /\ call.op = "search_videos"
    /\ call.checks = 2
    /\ Len(search_timestamps) = 2
    /\ Len(call.general) = 1
    /\ Len(SelectSeq(trace, LAMBDA x : x.engine = ApiEngine)) = 2

----------------------------------------------------------------------------
(* C36: run as the entry point with the MCP SDK available, the module      *)
(* reaches the server main loop: the name main called at the entry point   *)
(* is bound to the coroutine that runs the stdio server.                   *)
C36_Startup ==
    (call.op = "run" /\ call.name = "__main__" /\ MCP_AVAILABLE) =>
        /\ ~ ret.raised
        /\ ret.value = "serving"

----------------------------------------------------------------------------
(* Vocabulary of the terminal properties *)

IsRunCommand == call.op = "run_command"

(* The resolved path p lies in or below the resolved directory a *)
Inside(p, a) ==
    \E k \in 0..Len(resolve(p)) : SubSeq(resolve(p), 1, k) = resolve(a)

(* The working directory of the call is one run_command may use *)
DirAllowed ==
    IF call.working_dir.kind = "path"
    THEN \E i \in 1..Len(ALLOWED_DIRS) :
            Inside(call.working_dir.path, ALLOWED_DIRS[i])
    ELSE ALLOWED_DIRS # << >>

(* The directory get_allowed_working_dir hands to the subprocess *)
ValidatedDir ==
    IF call.working_dir.kind = "path" THEN resolve(call.working_dir.path)
    ELSE resolve(ALLOWED_DIRS[1])

StillRunning ==
    /\ IsRunCommand
    /\ processes # << >>
    /\ processes[1].at_deadline = "running"

(* C37: run_command starts a subprocess only when the working directory   *)
(* is allowed: when the requested directory does not resolve inside an     *)
(* allowed directory, or none is requested and none is configured, no      *)
(* process is created and the result has exit_code -1 and error            *)
(* "exception"; run_command never raises.                                  *)
C37_AllowedDirOnly ==
    IsRunCommand =>
        /\ ~ ret.raised
        /\ processes # << >> => DirAllowed
        /\ \A i \in 1..Len(processes) : processes[i].cwd = ValidatedDir
        /\ ~ DirAllowed =>
              /\ processes = << >>
              /\ ret.value.exit_code = -1
              /\ "error" \in DOMAIN ret.value
              /\ ret.value.error = "exception"

(* A request that names an allowed directory and climbs out of it with    *)
(* "..", refused without a process                                         *)
C37_Witness ==
    /\ IsRunCommand
    /\ call.working_dir.kind = "path"
    /\ \E i \in 1..Len(ALLOWED_DIRS) :
          relative_to(call.working_dir.path, ALLOWED_DIRS[i])
    /\ ~ DirAllowed
    /\ processes = << >>
    /\ ret.value.error = "exception"
    /\ ret.value.stderr = "Directory not allowed"

(* C38: when the command has not finished within the configured timeout,  *)
(* the process is killed and its termination is awaited before             *)
(* run_command returns, and the result has exit_code -1, error "timeout",  *)
(* an empty stdout and the validated working directory.                    *)
C38_Timeout ==
    StillRunning =>
        /\ Len(processes) = 1
        /\ processes[1].events = <<"create", "communicate", "kill", "wait">>
        /\ ~ ret.raised
        /\ ret.value.exit_code = -1
        /\ "error" \in DOMAIN ret.value
        /\ ret.value.error = "timeout"
        /\ ret.value.stdout = << >>
        /\ ret.value.working_dir = ValidatedDir

(* A command that timed out in a directory requested through a link: the  *)
(* result names the resolved directory, not the requested one             *)
C38_Witness ==
    /\ StillRunning
    /\ call.working_dir.kind = "path"
    /\ ret.value.error = "timeout"
    /\ ret.value.working_dir # call.working_dir.path
    /\ processes[1].events[Len(processes[1].events)] = "wait"

====
